---- MODULE Spec2Model ----
(***************************************************************************)
(* Model of the satellite data service (SatelliteService) of the backend:  *)
(* getActiveSatellites, getSatelliteById and clearCache over the Redis     *)
(* cache store and the two upstream providers (CelesTrak = Provider A,     *)
(* Space-Track = Provider B).                                              *)
(*                                                                         *)
(* One action is the completion of one awaited operation (a Redis call or  *)
(* an HTTP request) followed by the synchronous code up to the next await. *)
(* Strings the code inspects (names, cache keys, JSON text) are sequences  *)
(* of characters or tokens; numbers are integers (km, whole degrees).      *)
(***************************************************************************)
EXTENDS Integers, Sequences, FiniteSets, TLC

(***************************************************************************)
(* Bounds of the model.                                                    *)
(***************************************************************************)
\* Number of catalogued objects the upstream feeds list.
NumSats == 2

\* Last reading of the clock in the runs where time passes.
MaxNow == 1

(***************************************************************************)
(* State                                                                    *)
(***************************************************************************)
VARIABLES
  cacheEnabled,   \* config.cacheEnabled
  callers,        \* the callers that issue requests
  store,          \* the Redis store: key -> text
  call,           \* per caller: position, locals, and what the environment answered
  now,            \* the clock new Date() reads
  input,          \* argument handed to a function of the parser or the service
  output,         \* what the function returned for it
  redisClient     \* the RedisClient singleton: its isConnected flag and its socket

vars == << cacheEnabled, callers, store, call, now, input, output, redisClient >>

\* Nothing was handed over, nothing came back
NoValue == [fn |-> "none"]

\* The RedisClient object after its constructor: isConnected = false, and the
\* node-redis client created but not connected (its socket is not open)
NotConnected == [isConnected |-> FALSE, socket |-> "closed"]

(***************************************************************************)
(* Generic helpers                                                          *)
(***************************************************************************)
RECURSIVE Flatten(_)
Flatten(ss) == IF ss = <<>> THEN <<>> ELSE Head(ss) \o Flatten(Tail(ss))

\* Array.prototype.includes on a sequence
ArrIncludes(a, x) == \E i \in 1..Len(a) : a[i] = x

\* String.prototype.startsWith / the glob "prefix*" of Redis KEYS
StartsWith(s, pre) == Len(s) >= Len(pre) /\ SubSeq(s, 1, Len(pre)) = pre

(***************************************************************************)
(* Strings as character sequences: toLowerCase and includes                 *)
(***************************************************************************)
UpperChars == <<"A","B","C","D","E","F","G","H","I","J","K","L","M",
                "N","O","P","Q","R","S","T","U","V","W","X","Y","Z">>
LowerChars == <<"a","b","c","d","e","f","g","h","i","j","k","l","m",
                "n","o","p","q","r","s","t","u","v","w","x","y","z">>

LowerChar(c) ==
  IF \E i \in 1..26 : UpperChars[i] = c
  THEN LowerChars[CHOOSE i \in 1..26 : UpperChars[i] = c]
  ELSE c

toLowerCase(s) == [i \in 1..Len(s) |-> LowerChar(s[i])]

\* String.prototype.includes
includes(s, sub) ==
  \E i \in 0..(Len(s) - Len(sub)) : SubSeq(s, i + 1, i + Len(sub)) = sub

(***************************************************************************)
(* classifySatelliteType: first match wins over the lower-cased name        *)
(***************************************************************************)
kw_iss == <<"i","s","s">>
kw_station == <<"s","t","a","t","i","o","n">>
kw_gps == <<"g","p","s">>
kw_glonass == <<"g","l","o","n","a","s","s">>
kw_galileo == <<"g","a","l","i","l","e","o">>
kw_beidou == <<"b","e","i","d","o","u">>
kw_weather == <<"w","e","a","t","h","e","r">>
kw_meteor == <<"m","e","t","e","o","r">>
kw_noaa == <<"n","o","a","a">>
kw_military == <<"m","i","l","i","t","a","r","y">>
kw_defense == <<"d","e","f","e","n","s","e">>
kw_classified == <<"c","l","a","s","s","i","f","i","e","d">>
kw_starlink == <<"s","t","a","r","l","i","n","k">>
kw_oneweb == <<"o","n","e","w","e","b">>
kw_iridium == <<"i","r","i","d","i","u","m">>
kw_hubble == <<"h","u","b","b","l","e">>
kw_jameswebb == <<"j","a","m","e","s"," ","w","e","b","b">>
kw_telescope == <<"t","e","l","e","s","c","o","p","e">>

\* Variant of the chain that tests the weather keywords before all others
classifySatelliteType_weatherFirst(name) ==
  LET lowerName == toLowerCase(name) IN
  IF includes(lowerName, kw_weather) \/ includes(lowerName, kw_meteor)
     \/ includes(lowerName, kw_noaa)
    THEN "weather"
  ELSE IF includes(lowerName, kw_iss) \/ includes(lowerName, kw_station)
    THEN "space-station"
  ELSE IF includes(lowerName, kw_gps) \/ includes(lowerName, kw_glonass)
          \/ includes(lowerName, kw_galileo) \/ includes(lowerName, kw_beidou)
    THEN "navigation"
  ELSE IF includes(lowerName, kw_military) \/ includes(lowerName, kw_defense)
          \/ includes(lowerName, kw_classified)
    THEN "military"
  ELSE IF includes(lowerName, kw_starlink) \/ includes(lowerName, kw_oneweb)
          \/ includes(lowerName, kw_iridium)
    THEN "communication"
  ELSE IF includes(lowerName, kw_hubble) \/ includes(lowerName, kw_jameswebb)
          \/ includes(lowerName, kw_telescope)
    THEN "scientific"
  ELSE "unknown"

classifySatelliteType(name) ==
  LET lowerName == toLowerCase(name) IN
  IF includes(lowerName, kw_iss) \/ includes(lowerName, kw_station)
    THEN "space-station"
  ELSE IF includes(lowerName, kw_gps) \/ includes(lowerName, kw_glonass)
          \/ includes(lowerName, kw_galileo) \/ includes(lowerName, kw_beidou)
    THEN "navigation"
  ELSE IF includes(lowerName, kw_weather) \/ includes(lowerName, kw_meteor)
          \/ includes(lowerName, kw_noaa)
    THEN "weather"
  ELSE IF includes(lowerName, kw_military) \/ includes(lowerName, kw_defense)
          \/ includes(lowerName, kw_classified)
    THEN "military"
  ELSE IF includes(lowerName, kw_starlink) \/ includes(lowerName, kw_oneweb)
          \/ includes(lowerName, kw_iridium)
    THEN "communication"
  ELSE IF includes(lowerName, kw_hubble) \/ includes(lowerName, kw_jameswebb)
          \/ includes(lowerName, kw_telescope)
    THEN "scientific"
  ELSE "unknown"

(***************************************************************************)
(* JavaScript numbers: a number (whole units in this model: km, degrees,    *)
(* revolutions per day; fractions are dropped), NaN, or the null that       *)
(* JSON.stringify writes for NaN and that counts as 0 in arithmetic         *)
(***************************************************************************)
Num(v) == [t |-> "num", v |-> v]
NaN == [t |-> "NaN", v |-> 0]
JNull == [t |-> "null", v |-> 0]

IsNaN(x) == x.t = "NaN"

\* x < y, x > y, x >= y and x <= y of JavaScript: false when either side is NaN
NumLt(x, y) == ~IsNaN(x) /\ ~IsNaN(y) /\ x.v < y.v
NumGt(x, y) == ~IsNaN(x) /\ ~IsNaN(y) /\ x.v > y.v
NumGe(x, y) == ~IsNaN(x) /\ ~IsNaN(y) /\ x.v >= y.v
NumLe(x, y) == ~IsNaN(x) /\ ~IsNaN(y) /\ x.v <= y.v

\* x - y and Math.abs(x)
NumMinus(x, y) == IF IsNaN(x) \/ IsNaN(y) THEN NaN ELSE Num(x.v - y.v)
NumAbs(x) == IF IsNaN(x) THEN NaN ELSE Num(IF x.v < 0 THEN -x.v ELSE x.v)

(***************************************************************************)
(* calculateAltitude / classifyOrbitType                                    *)
(***************************************************************************)
earthRadius == 6371

calculateAltitude(semiMajorAxis) == NumMinus(semiMajorAxis, Num(earthRadius))

\* Variant of the classification that looks at the inclination bands first
classifyOrbitType_inclinationFirst(semiMajorAxis, inclination) ==
  LET altitude == calculateAltitude(semiMajorAxis) IN
  IF NumLt(NumAbs(NumMinus(inclination, Num(90))), Num(10)) THEN "polar"
  ELSE IF NumLt(NumAbs(NumMinus(inclination, Num(98))), Num(5)) THEN "sun-synchronous"
  ELSE IF NumLt(altitude, Num(2000)) THEN "low-earth-orbit"
  ELSE IF NumLt(altitude, Num(35786)) THEN "medium-earth-orbit"
  ELSE IF NumGe(altitude, Num(35786)) /\ NumLt(altitude, Num(36000)) THEN "geostationary"
  ELSE IF NumGt(altitude, Num(36000)) THEN "high-earth-orbit"
  ELSE "unknown"

classifyOrbitType(semiMajorAxis, inclination) ==
  LET altitude == calculateAltitude(semiMajorAxis) IN
  IF NumLt(altitude, Num(2000)) THEN "low-earth-orbit"
  ELSE IF NumLt(altitude, Num(35786)) THEN "medium-earth-orbit"
  ELSE IF NumGe(altitude, Num(35786)) /\ NumLt(altitude, Num(36000)) THEN "geostationary"
  ELSE IF NumGt(altitude, Num(36000)) THEN "high-earth-orbit"
  ELSE IF NumLt(NumAbs(NumMinus(inclination, Num(90))), Num(10)) THEN "polar"
  ELSE IF NumLt(NumAbs(NumMinus(inclination, Num(98))), Num(5)) THEN "sun-synchronous"
  ELSE "unknown"

(***************************************************************************)
(* Strings of the parser: trim, substring, parseInt, parseFloat             *)
(***************************************************************************)
DigitChars == <<"0","1","2","3","4","5","6","7","8","9">>

DigitSet == {DigitChars[i] : i \in 1..10}

IsDigit(ch) == ch \in DigitSet

DigitVal(ch) == (CHOOSE i \in 1..10 : DigitChars[i] = ch) - 1

SpaceSet == {" ", "\t", "\r", "\n"}

IsSpace(ch) == ch \in SpaceSet

\* Index of the first character from i on, and of the last one up to i, that
\* is not white space
RECURSIVE SkipSpacesRight(_, _)
SkipSpacesRight(str, i) ==
  IF i > Len(str) THEN i
  ELSE IF IsSpace(str[i]) THEN SkipSpacesRight(str, i + 1) ELSE i

RECURSIVE SkipSpacesLeft(_, _)
SkipSpacesLeft(str, i) ==
  IF i < 1 THEN i
  ELSE IF IsSpace(str[i]) THEN SkipSpacesLeft(str, i - 1) ELSE i

\* String.prototype.trim
trim(str) == SubSeq(str, SkipSpacesRight(str, 1), SkipSpacesLeft(str, Len(str)))

\* String.prototype.substring(start, end), 0-based, end exclusive
substring(str, start, end) ==
  SubSeq(str, start + 1, IF end < Len(str) THEN end ELSE Len(str))

\* str[i], 0-based: the empty string stands for undefined
charAt(str, i) == IF i < Len(str) THEN <<str[i + 1]>> ELSE <<>>

\* Length of the longest prefix of digits
RECURSIVE DigitPrefixFrom(_, _)
DigitPrefixFrom(str, n) ==
  IF n < Len(str) /\ IsDigit(str[n + 1]) THEN DigitPrefixFrom(str, n + 1) ELSE n

DigitPrefix(str) == DigitPrefixFrom(str, 0)

RECURSIVE DigitsValue(_)
DigitsValue(ds) ==
  IF ds = <<>> THEN 0
  ELSE DigitsValue(SubSeq(ds, 1, Len(ds) - 1)) * 10 + DigitVal(ds[Len(ds)])

\* The sign a numeric literal starts with, and the literal without it
SignOf(str) == IF str # <<>> /\ str[1] = "-" THEN -1 ELSE 1
Unsigned(str) == IF str # <<>> /\ str[1] \in {"-", "+"} THEN Tail(str) ELSE str

\* parseInt(str): leading white space, a sign, then decimal digits
parseInt(str) ==
  LET body == Unsigned(trim(str))
      n == DigitPrefix(body)
  IN  IF n = 0 THEN NaN
      ELSE Num(SignOf(trim(str)) * DigitsValue(SubSeq(body, 1, n)))

\* parseFloat(str): leading white space, a sign, digits, a point and digits;
\* what follows is ignored; the value is kept without its fraction
parseFloat(str) ==
  LET body == Unsigned(trim(str))
      n == DigitPrefix(body)
      rest == SubSeq(body, n + 1, Len(body))
      frac == IF rest # <<>> /\ rest[1] = "." THEN DigitPrefix(Tail(rest)) ELSE 0
  IN  IF n = 0 /\ frac = 0 THEN NaN
      ELSE Num(SignOf(trim(str)) * DigitsValue(SubSeq(body, 1, n)))

(***************************************************************************)
(* TLEParser                                                                *)
(***************************************************************************)
\* extractNoradId
extractNoradId(line1) == trim(substring(line1, 2, 7))

\* extractEpoch: new Date(fullYear, 0, 1), setDate, toISOString.  A year or a
\* day of year that is NaN gives an Invalid Date, on which toISOString throws
\* a RangeError
extractEpoch(line1) ==
  LET epochString == trim(substring(line1, 18, 32))
      year == parseInt(substring(epochString, 0, 2))
      dayOfYear == parseFloat(substring(epochString, 2, Len(epochString)))
  IN  IF IsNaN(year) \/ IsNaN(dayOfYear)
      THEN [threw |-> TRUE, fullYear |-> 0, dayOfYear |-> 0]
      ELSE [threw |-> FALSE,
            fullYear |-> IF year.v < 57 THEN 2000 + year.v ELSE 1900 + year.v,
            dayOfYear |-> dayOfYear.v]

\* Whole cube root, by bisection
RECURSIVE CubeRootIn(_, _, _)
CubeRootIn(x, lo, hi) ==
  IF hi - lo <= 1 THEN lo
  ELSE LET mid == (lo + hi) \div 2 IN
       IF mid * mid * mid <= x THEN CubeRootIn(x, mid, hi) ELSE CubeRootIn(x, lo, mid)

CubeRoot(x) == CubeRootIn(x, 0, 1290)

\* calculateSemiMajorAxis: Math.pow(GM / (n * n), 1/3) with n in rad/s, which
\* is 42241 km divided by meanMotion^(2/3); in whole km
calculateSemiMajorAxis(meanMotion) ==
  IF IsNaN(meanMotion) THEN NaN
  ELSE IF meanMotion.v <= 0 THEN Num(0)
  ELSE IF meanMotion.v <= 2000
    THEN LET c == CubeRoot(meanMotion.v * 1000000) IN Num((42241 * 10000) \div (c * c))
  ELSE LET c == CubeRoot(meanMotion.v * 1000) IN Num((42241 * 100) \div (c * c))

\* period = meanMotion > 0 ? (24 * 60) / meanMotion : 0, in thousandths of a
\* minute
OrbitalPeriod(meanMotion) ==
  IF NumGt(meanMotion, Num(0)) THEN Num((24 * 60 * 1000) \div meanMotion.v) ELSE Num(0)

\* extractOrbitalElements: the fields the service and the statistics read
extractOrbitalElements(line1, line2) ==
  LET meanMotion == parseFloat(substring(line1, 52, 63))
      inclination == parseFloat(substring(line2, 8, 16))
      epoch == extractEpoch(line1)
  IN  [threw |-> epoch.threw,
       semiMajorAxis |-> calculateSemiMajorAxis(meanMotion),
       inclination |-> inclination,
       meanMotion |-> meanMotion,
       period |-> OrbitalPeriod(meanMotion)]

NoElements ==
  [threw |-> FALSE, semiMajorAxis |-> Num(0), inclination |-> Num(0),
   meanMotion |-> Num(0), period |-> Num(0)]

NoTLE ==
  [noradId |-> <<>>, name |-> <<>>, line1 |-> <<>>, line2 |-> <<>>,
   fullYear |-> 0, dayOfYear |-> 0, orbitalElements |-> NoElements]

\* parseSingleTLE: the record, or the RangeError of the epoch
parseSingleTLE(name, line1, line2) ==
  LET epoch == extractEpoch(line1)
      orbitalElements == extractOrbitalElements(line1, line2)
  IN  IF epoch.threw \/ orbitalElements.threw
      THEN [threw |-> TRUE, tle |-> NoTLE]
      ELSE [threw |-> FALSE,
            tle |-> [noradId |-> extractNoradId(line1),
                     name |-> trim(name),
                     line1 |-> line1,
                     line2 |-> line2,
                     fullYear |-> epoch.fullYear,
                     dayOfYear |-> epoch.dayOfYear,
                     orbitalElements |-> orbitalElements]]

\* What one character adds to the checksum: '-' counts 1, a digit its value,
\* a capital letter its char code minus 55
LetterChars == <<"A","B","C","D","E","F","G","H","I","J","K","L","M",
                 "N","O","P","Q","R","S","T","U","V","W","X","Y","Z">>

ChecksumOfChar(ch) ==
  IF ch = "-" THEN 1
  ELSE IF IsDigit(ch) THEN DigitVal(ch)
  ELSE IF \E i \in 1..26 : LetterChars[i] = ch
    THEN (CHOOSE i \in 1..26 : LetterChars[i] = ch) + 9
  ELSE 0

RECURSIVE CalculatedChecksum(_, _)
CalculatedChecksum(line, n) ==
  IF n = 0 THEN 0
  ELSE CalculatedChecksum(line, n - 1)
       + (IF n <= Len(line) THEN ChecksumOfChar(line[n]) ELSE 0)

\* validateChecksum
validateChecksum(line) ==
  LET checksum == parseInt(charAt(line, 68)) IN
  /\ ~IsNaN(checksum)
  /\ CalculatedChecksum(line, 68) % 10 = checksum.v

\* Variant of the validation in which a failed checksum rejects the group
isValidTLE_checksumRejects(name, line1, line2) ==
  /\ name # <<>> /\ line1 # <<>> /\ line2 # <<>>
  /\ Len(line1) = 69 /\ Len(line2) = 69
  /\ line1[1] = "1" /\ line2[1] = "2"
  /\ validateChecksum(line1) /\ validateChecksum(line2)

\* isValidTLE without the checksum, which only warns
isValidTLE(name, line1, line2) ==
  /\ name # <<>> /\ line1 # <<>> /\ line2 # <<>>
  /\ Len(line1) = 69 /\ Len(line2) = 69
  /\ line1[1] = "1" /\ line2[1] = "2"

\* console.warn('TLE checksum validation failed for:', name) in isValidTLE
ChecksumWarning(name, line1, line2) ==
  /\ name # <<>> /\ line1 # <<>> /\ line2 # <<>>
  /\ Len(line1) = 69 /\ Len(line2) = 69
  /\ line1[1] = "1" /\ line2[1] = "2"
  /\ (~validateChecksum(line1) \/ ~validateChecksum(line2))

\* rawTLE.trim().split('\n') on a text given by its lines: the blank lines at
\* both ends go, and an empty text is one empty line
SplitLines(rawTLE) ==
  LET keep == {i \in 1..Len(rawTLE) : trim(rawTLE[i]) # <<>>} IN
  IF keep = {} THEN << <<>> >>
  ELSE SubSeq(rawTLE, CHOOSE i \in keep : \A j \in keep : i <= j,
                      CHOOSE i \in keep : \A j \in keep : i >= j)

\* parseTLE: the loop over groups of three lines, from group g on
RECURSIVE parseTLEFrom(_, _, _)
parseTLEFrom(lines, g, tles) ==
  IF 3 * g > Len(lines) THEN [threw |-> FALSE, tles |-> tles]
  ELSE LET name == trim(lines[3 * g - 2])
           line1 == trim(lines[3 * g - 1])
           line2 == trim(lines[3 * g])
       IN  IF ~isValidTLE(name, line1, line2)
           THEN parseTLEFrom(lines, g + 1, tles)
           ELSE LET r == parseSingleTLE(name, line1, line2) IN
                IF r.threw THEN [threw |-> TRUE, tles |-> <<>>]
                ELSE parseTLEFrom(lines, g + 1, Append(tles, r.tle))

parseTLE(rawTLE) == parseTLEFrom(SplitLines(rawTLE), 1, <<>>)

parseCelesTrakTLE(rawData) == parseTLE(rawData)

\* parseSpaceTrackTLE: every item with its three fields goes to parseSingleTLE
RECURSIVE parseSpaceTrackFrom(_, _, _)
parseSpaceTrackFrom(jsonData, i, tles) ==
  IF i > Len(jsonData) THEN [threw |-> FALSE, tles |-> tles]
  ELSE LET item == jsonData[i] IN
       IF item.TLE_LINE0 # <<>> /\ item.TLE_LINE1 # <<>> /\ item.TLE_LINE2 # <<>>
       THEN LET r == parseSingleTLE(item.TLE_LINE0, item.TLE_LINE1, item.TLE_LINE2) IN
            IF r.threw THEN [threw |-> TRUE, tles |-> <<>>]
            ELSE parseSpaceTrackFrom(jsonData, i + 1, Append(tles, r.tle))
       ELSE parseSpaceTrackFrom(jsonData, i + 1, tles)

parseSpaceTrackTLE(jsonData) == parseSpaceTrackFrom(jsonData, 1, <<>>)

(***************************************************************************)
(* The upstream world: the objects the two providers list, each by its      *)
(* three-line element set as CelesTrak prints it                            *)
(***************************************************************************)
endpoints == << "/active.txt", "/stations.txt", "/weather.txt", "/noaa.txt",
                "/gps-ops.txt", "/glo-ops.txt", "/galileo.txt", "/beidou.txt" >>

NumEndpoints == Len(endpoints)

EndpointSet == {endpoints[i] : i \in 1..NumEndpoints}

\* 1 25544U 98067A   08264.51782528 -.00002182  00000-0 -11606-4 0  2927
ISS_line1 ==
  <<"1"," ","2","5","5","4","4","U"," ","9","8","0","6","7","A"," "," "," ",
    "0","8","2","6","4",".","5","1","7","8","2","5","2","8"," ","-",".","0",
    "0","0","0","2","1","8","2"," "," ","0","0","0","0","0","-","0"," ","-",
    "1","1","6","0","6","-","4"," ","0"," "," ","2","9","2","7">>

\* 2 25544  51.6416 247.4627 0006703 130.5360 325.0288 15.72125391563537
ISS_line2 ==
  <<"2"," ","2","5","5","4","4"," "," ","5","1",".","6","4","1","6"," ","2",
    "4","7",".","4","6","2","7"," ","0","0","0","6","7","0","3"," ","1","3",
    "0",".","5","3","6","0"," ","3","2","5",".","0","2","8","8"," ","1","5",
    ".","7","2","1","2","5","3","9","1","5","6","3","5","3","7">>

\* 1 20580U 90037B   24001.50000000  .00001234  00000-0  10270-3 0  9999
HST_line1 ==
  <<"1"," ","2","0","5","8","0","U"," ","9","0","0","3","7","B"," "," "," ",
    "2","4","0","0","1",".","5","0","0","0","0","0","0","0"," "," ",".","0",
    "0","0","0","1","2","3","4"," "," ","0","0","0","0","0","-","0"," "," ",
    "1","0","2","7","0","-","3"," ","0"," "," ","9","9","9","9">>

\* 2 20580  28.4699 100.0000 0002500 150.0000 210.0000 15.09000000123452
HST_line2 ==
  <<"2"," ","2","0","5","8","0"," "," ","2","8",".","4","6","9","9"," ","1",
    "0","0",".","0","0","0","0"," ","0","0","0","2","5","0","0"," ","1","5",
    "0",".","0","0","0","0"," ","2","1","0",".","0","0","0","0"," ","1","5",
    ".","0","9","0","0","0","0","0","0","1","2","3","4","5","2">>

\* 1 33591U 09005A   24001.50000000  .00000100  00000-0  80000-4 0  9990
NOAA19_line1 ==
  <<"1"," ","3","3","5","9","1","U"," ","0","9","0","0","5","A"," "," "," ",
    "2","4","0","0","1",".","5","0","0","0","0","0","0","0"," "," ",".","0",
    "0","0","0","0","1","0","0"," "," ","0","0","0","0","0","-","0"," "," ",
    "8","0","0","0","0","-","4"," ","0"," "," ","9","9","9","0">>

\* 2 33591  99.1900 200.0000 0014000  90.0000 270.0000 14.12000000765439
NOAA19_line2 ==
  <<"2"," ","3","3","5","9","1"," "," ","9","9",".","1","9","0","0"," ","2",
    "0","0",".","0","0","0","0"," ","0","0","1","4","0","0","0"," "," ","9",
    "0",".","0","0","0","0"," ","2","7","0",".","0","0","0","0"," ","1","4",
    ".","1","2","0","0","0","0","0","0","7","6","5","4","3","9">>

ISS_id == <<"2","5","5","4","4">>
HST_id == <<"2","0","5","8","0">>
Absent_id == <<"9","9","9","9","9">>

AllSats ==
  << [name |-> <<"I","S","S">>, line1 |-> ISS_line1, line2 |-> ISS_line2,
      lists |-> {"/active.txt", "/stations.txt"}],
     [name |-> <<"H","S","T">>, line1 |-> HST_line1, line2 |-> HST_line2,
      lists |-> {"/active.txt"}],
     [name |-> <<"N","O","A","A"," ","1","9">>,
      line1 |-> NOAA19_line1, line2 |-> NOAA19_line2,
      lists |-> {"/active.txt"}] >>

Catalog == SubSeq(AllSats, 1, IF NumSats < Len(AllSats) THEN NumSats ELSE Len(AllSats))

CatalogIds == {extractNoradId(Catalog[i].line1) : i \in 1..Len(Catalog)}

\* The text of a list: name, line 1 and line 2 of each object, one per line
TextOf(groups) ==
  Flatten([i \in 1..Len(groups) |-> << groups[i].name, groups[i].line1, groups[i].line2 >>])

\* What a CelesTrak endpoint serves when it answers: its list, or an empty body
FeedA(endpoint) == TextOf(SelectSeq(Catalog, LAMBDA t : endpoint \in t.lists))
BodiesA(endpoint) == {FeedA(endpoint), <<>>}

\* What Space-Track serves when it answers: the catalogue as JSON items, or an
\* empty array
ItemOf(t) == [TLE_LINE0 |-> t.name, TLE_LINE1 |-> t.line1, TLE_LINE2 |-> t.line2]
FeedB == [i \in 1..Len(Catalog) |-> ItemOf(Catalog[i])]
BodiesB == {FeedB, <<>>}

(***************************************************************************)
(* convertTLEToSatellite                                                    *)
(***************************************************************************)
\* Variant of the conversion that stores the source it was given (for
\* CelesTrak the endpoint path) as dataSource
convertTLEToSatellite_sourceVerbatim(tle, source) ==
  [id |-> tle.noradId,
   name |-> tle.name,
   type |-> classifySatelliteType(tle.name),
   semiMajorAxis |-> tle.orbitalElements.semiMajorAxis,
   inclination |-> tle.orbitalElements.inclination,
   country |-> "Unknown",
   operator |-> "Unknown",
   mission |-> "Unknown",
   orbitType |-> classifyOrbitType(tle.orbitalElements.semiMajorAxis,
                                   tle.orbitalElements.inclination),
   isActive |-> TRUE,
   lastUpdated |-> now,
   dataSource |-> source]

\* Variant of the conversion that marks a record whose elements were not
\* parsed as inactive
convertTLEToSatellite_inactiveWhenUnparsed(tle, source) ==
  [id |-> tle.noradId,
   name |-> tle.name,
   type |-> classifySatelliteType(tle.name),
   semiMajorAxis |-> tle.orbitalElements.semiMajorAxis,
   inclination |-> tle.orbitalElements.inclination,
   country |-> "Unknown",
   operator |-> "Unknown",
   mission |-> "Unknown",
   orbitType |-> classifyOrbitType(tle.orbitalElements.semiMajorAxis,
                                   tle.orbitalElements.inclination),
   isActive |-> ~IsNaN(tle.orbitalElements.semiMajorAxis),
   lastUpdated |-> now,
   dataSource |-> IF source = "space-track" THEN "space-track" ELSE "celestrak"]

convertTLEToSatellite(tle, source) ==
  [id |-> tle.noradId,
   name |-> tle.name,
   type |-> classifySatelliteType(tle.name),
   semiMajorAxis |-> tle.orbitalElements.semiMajorAxis,
   inclination |-> tle.orbitalElements.inclination,
   country |-> "Unknown",
   operator |-> "Unknown",
   mission |-> "Unknown",
   orbitType |-> classifyOrbitType(tle.orbitalElements.semiMajorAxis,
                                   tle.orbitalElements.inclination),
   isActive |-> TRUE,
   lastUpdated |-> now,
   dataSource |-> IF source = "space-track" THEN "space-track" ELSE "celestrak"]

ConvertAll(parsedTLEs, source) ==
  [i \in 1..Len(parsedTLEs) |-> convertTLEToSatellite(parsedTLEs[i], source)]

\* A placeholder where no record is held
NoSat ==
  [id |-> <<>>, name |-> <<>>, type |-> "unknown", semiMajorAxis |-> Num(0),
   inclination |-> Num(0), country |-> "", operator |-> "", mission |-> "",
   orbitType |-> "unknown",
   isActive |-> FALSE, lastUpdated |-> 0, dataSource |-> "manual"]

(***************************************************************************)
(* SatelliteFilter values.  A filter is what JSON.parse of the query gives  *)
(* (or undefined): an object with its properties in the order they were     *)
(* written, each value tagged with its JavaScript type.                     *)
(***************************************************************************)
VUndef == [t |-> "undef", a |-> <<>>, b |-> FALSE, n |-> 0, min |-> 0, max |-> 0]
VArr(a) == [t |-> "arr", a |-> a, b |-> FALSE, n |-> 0, min |-> 0, max |-> 0]
VBool(b) == [t |-> "bool", a |-> <<>>, b |-> b, n |-> 0, min |-> 0, max |-> 0]
VNum(n) == [t |-> "num", a |-> <<>>, b |-> FALSE, n |-> n, min |-> 0, max |-> 0]
VRange(lo, hi) == [t |-> "range", a |-> <<>>, b |-> FALSE, n |-> 0, min |-> lo, max |-> hi]

NoFilter == [present |-> FALSE, props |-> <<>>]
FilterObj(props) == [present |-> TRUE, props |-> props]

\* filter.k : the property's value, undefined when it is not there
Prop(filter, k) ==
  IF \E i \in 1..Len(filter.props) : filter.props[i].k = k
  THEN filter.props[CHOOSE i \in 1..Len(filter.props) : filter.props[i].k = k].v
  ELSE VUndef

\* JavaScript truthiness of a filter value
Truthy(v) ==
  CASE v.t = "undef" -> FALSE
    [] v.t = "bool" -> v.b
    [] v.t = "num" -> v.n # 0
    [] OTHER -> TRUE

\* if (filter.k && !filter.k.includes(x)) return false;
ListCheck(v, x) ==
  IF ~Truthy(v) THEN "pass"
  ELSE IF v.t = "arr" THEN (IF ArrIncludes(v.a, x) THEN "pass" ELSE "drop")
  ELSE "throw"

\* if (filter.isActive !== undefined && satellite.isActive !== filter.isActive) return false;
ActiveCheck(v, isActive) ==
  IF v.t = "undef" THEN "pass"
  ELSE IF v.t = "bool" /\ v.b = isActive THEN "pass"
  ELSE "drop"

\* if (filter.r) { if (x < filter.r.min || x > filter.r.max) return false; }
RangeCheck(v, x) ==
  IF ~Truthy(v) THEN "pass"
  ELSE IF v.t = "range"
    THEN (IF NumLt(x, Num(v.min)) \/ NumGt(x, Num(v.max)) THEN "drop" ELSE "pass")
  ELSE "pass"

\* The filter callback on one record: the first check that does not pass decides
FilterOne(satellite, filter) ==
  LET checks ==
        << ListCheck(Prop(filter, "type"), satellite.type),
           ListCheck(Prop(filter, "orbitType"), satellite.orbitType),
           ListCheck(Prop(filter, "country"), satellite.country),
           ListCheck(Prop(filter, "operator"), satellite.operator),
           ActiveCheck(Prop(filter, "isActive"), satellite.isActive),
           RangeCheck(Prop(filter, "altitudeRange"),
                      calculateAltitude(satellite.semiMajorAxis)),
           RangeCheck(Prop(filter, "inclinationRange"), satellite.inclination) >>
  IN  IF \A i \in 1..Len(checks) : checks[i] = "pass" THEN "pass"
      ELSE checks[CHOOSE i \in 1..Len(checks) :
                    /\ checks[i] # "pass"
                    /\ \A j \in 1..(i - 1) : checks[j] = "pass"]

\* applyFilters raises a TypeError when the callback does on some record
applyFiltersThrows(satellites, filter) ==
  /\ filter.present
  /\ \E i \in 1..Len(satellites) : FilterOne(satellites[i], filter) = "throw"

applyFilters(satellites, filter) ==
  IF ~filter.present THEN satellites
  ELSE SelectSeq(satellites, LAMBDA sat : FilterOne(sat, filter) = "pass")

(***************************************************************************)
(* getSatelliteStats: the statistics computed over the collection returned  *)
(* by getActiveSatellites(filter)                                           *)
(***************************************************************************)
\* The counting object built by satellites.forEach: one property for each
\* value that occurs, holding the number of records with that value
CountBy(values) ==
  [v \in {values[i] : i \in 1..Len(values)} |->
     Cardinality({i \in 1..Len(values) : values[i] = v})]

\* altitudes.reduce((sum, alt) => sum + alt, 0): NaN once a NaN was added
RECURSIVE NumSum(_, _)
NumSum(altitudes, n) ==
  IF n = 0 THEN Num(0)
  ELSE LET rest == NumSum(altitudes, n - 1) IN
       IF IsNaN(rest) \/ IsNaN(altitudes[n]) THEN NaN
       ELSE Num(rest.v + altitudes[n].v)

\* Math.min(...altitudes) and Math.max(...altitudes): NaN when any argument is
MathMin(altitudes) ==
  IF \E i \in 1..Len(altitudes) : IsNaN(altitudes[i]) THEN NaN
  ELSE Num(CHOOSE m \in {altitudes[i].v : i \in 1..Len(altitudes)} :
             \A i \in 1..Len(altitudes) : m <= altitudes[i].v)

MathMax(altitudes) ==
  IF \E i \in 1..Len(altitudes) : IsNaN(altitudes[i]) THEN NaN
  ELSE Num(CHOOSE m \in {altitudes[i].v : i \in 1..Len(altitudes)} :
             \A i \in 1..Len(altitudes) : m >= altitudes[i].v)

NoStats ==
  [total |-> 0, active |-> 0, inactive |-> 0,
   byType |-> [v \in {} |-> 0], byOrbitType |-> [v \in {} |-> 0],
   byCountry |-> [v \in {} |-> 0],
   averageAltitude |-> Num(0), min |-> Num(0), max |-> Num(0)]

\* The body of getSatelliteStats after getActiveSatellites resolved
SatelliteStats(satellites) ==
  LET altitudes == [i \in 1..Len(satellites) |->
                      calculateAltitude(satellites[i].semiMajorAxis)]
      sum == NumSum(altitudes, Len(altitudes))
  IN  [total |-> Len(satellites),
       active |-> Cardinality({i \in 1..Len(satellites) : satellites[i].isActive}),
       inactive |-> Cardinality({i \in 1..Len(satellites) : ~satellites[i].isActive}),
       byType |-> CountBy([i \in 1..Len(satellites) |-> satellites[i].type]),
       byOrbitType |-> CountBy([i \in 1..Len(satellites) |-> satellites[i].orbitType]),
       byCountry |-> CountBy([i \in 1..Len(satellites) |-> satellites[i].country]),
       averageAltitude |->
         IF Len(altitudes) > 0
         THEN (IF IsNaN(sum) THEN NaN ELSE Num(sum.v \div Len(altitudes)))
         ELSE Num(0),
       min |-> IF Len(altitudes) > 0 THEN MathMin(altitudes) ELSE Num(0),
       max |-> IF Len(altitudes) > 0 THEN MathMax(altitudes) ELSE Num(0)]

(***************************************************************************)
(* JSON.stringify of a filter, as a sequence of tokens, and the cache keys  *)
(***************************************************************************)
RECURSIVE JoinComma(_)
JoinComma(parts) ==
  IF parts = <<>> THEN <<>>
  ELSE IF Len(parts) = 1 THEN Head(parts)
  ELSE Head(parts) \o <<",">> \o JoinComma(Tail(parts))

Quoted(str) == << "\"", str, "\"" >>

ValueTokens(v) ==
  CASE v.t = "arr" ->
         <<"[">> \o JoinComma([i \in 1..Len(v.a) |-> Quoted(v.a[i])]) \o <<"]">>
    [] v.t = "bool" -> << IF v.b THEN "true" ELSE "false" >>
    [] v.t = "num" -> << ToString(v.n) >>
    [] v.t = "range" ->
         <<"{">> \o Quoted("min") \o <<":", ToString(v.min), ",">>
                 \o Quoted("max") \o <<":", ToString(v.max), "}">>
    [] OTHER -> <<>>

\* JSON.stringify(filter || {}): own properties in insertion order, the
\* undefined ones left out
JSONstringifyFilter(filter) ==
  LET defined == SelectSeq(filter.props, LAMBDA p : p.v.t # "undef")
  IN  <<"{">>
      \o JoinComma([i \in 1..Len(defined) |->
                      Quoted(defined[i].k) \o <<":">> \o ValueTokens(defined[i].v)])
      \o <<"}">>

\* `satellites:active:${JSON.stringify(filter || {})}`
ActiveCacheKey(filter) ==
  << "satellite", "s", ":", "active", ":" >> \o JSONstringifyFilter(filter)

\* `satellite:${id}`
IdCacheKey(id) == << "satellite", ":" >> \o id

\* Variant of the clear pattern that lost its plural: keys('satellite*')
MatchesClearPattern_singular(key) == StartsWith(key, << "satellite" >>)

\* keys('satellites:*')
MatchesClearPattern(key) == StartsWith(key, << "satellite", "s", ":" >>)

(***************************************************************************)
(* Values held in the store: the text JSON.stringify wrote, or text that    *)
(* is not JSON                                                              *)
(***************************************************************************)
\* JSON.stringify writes null for NaN, and JSON.parse reads null back
JSONNumber(x) == IF IsNaN(x) THEN JNull ELSE x

JSONRecord(satellite) ==
  [satellite EXCEPT !.semiMajorAxis = JSONNumber(@), !.inclination = JSONNumber(@)]

JSONstringifySatellites(satellites) ==
  [t |-> "json", kind |-> "arr",
   arr |-> [i \in 1..Len(satellites) |-> JSONRecord(satellites[i])], obj |-> NoSat]

JSONstringifySatellite(satellite) ==
  [t |-> "json", kind |-> "obj", arr |-> <<>>, obj |-> JSONRecord(satellite)]

Garbage == [t |-> "garbage", kind |-> "none", arr |-> <<>>, obj |-> NoSat]

\* JSON.parse throws a SyntaxError on text that is not JSON
JSONparseThrows(text) == text.t # "json"

(***************************************************************************)
(* Inputs of the service                                                    *)
(***************************************************************************)
AllCallers == {"c1", "c2"}

\* {type: ['space-station']} and the unvalidated {type: 5} the HTTP handler
\* can hand over after JSON.parse of the query
F_station == FilterObj(<< [k |-> "type", v |-> VArr(<<"space-station">>)] >>)
F_badType == FilterObj(<< [k |-> "type", v |-> VNum(5)] >>)

Filters == {NoFilter, F_station, F_badType}

Ids == CatalogIds \cup {Absent_id}

NoResult ==
  [kind |-> "none", list |-> <<>>, sat |-> NoSat, stats |-> NoStats,
   code |-> "", details |-> <<>>]
ListResult(list) == [NoResult EXCEPT !.kind = "list", !.list = list]
SatResult(sat) == [NoResult EXCEPT !.kind = "sat", !.sat = sat]
NullResult == [NoResult EXCEPT !.kind = "null"]
StatsResult(stats) == [NoResult EXCEPT !.kind = "stats", !.stats = stats]
VoidResult == [NoResult EXCEPT !.kind = "void"]
ErrorResult(code, details) == [NoResult EXCEPT !.kind = "error", !.code = code, !.details = details]

NoGet == [threw |-> FALSE, isNull |-> TRUE, text |-> Garbage]

Fresh ==
  [pc |-> "idle", op |-> "none", filter |-> NoFilter, cacheKey |-> <<>>,
   id |-> <<>>, idx |-> 0,
   allSatellites |-> <<>>, filteredSatellites |-> <<>>, satellites |-> <<>>,
   satellite |-> NoSat, keys |-> {}, error |-> "none", result |-> NoResult,
   \* what the environment answered during this invocation: the last Redis
   \* answers (kept until the next answer arrives), the requests issued to the
   \* providers and what they served
   idGet |-> NoGet, get |-> NoGet, reqA |-> 0, anyOkA |-> FALSE, anyFailA |-> FALSE,
   servedA |-> <<>>,
   reqB |-> 0, bOut |-> "none", servedB |-> <<>>, setOut |-> "none",
   idSetOut |-> "none", keysOut |-> "none", delOut |-> "none", interfered |-> FALSE,
   \* the clock when the upstream answered, and when the invocation began
   fetchedAt |-> 0, startedAt |-> 0,
   \* clearCache: the satellites:* keys that, when it returned, held a record
   \* fetched before it began
   olderLeft |-> {}]

Init ==
  /\ cacheEnabled \in BOOLEAN
  /\ callers = {"c1"}
  /\ store = [k \in {} |-> Garbage]
  /\ call = [p \in AllCallers |-> Fresh]
  /\ now = 0
  /\ input = NoValue
  /\ output = NoValue
  /\ redisClient = NotConnected

(***************************************************************************)
(* The Redis client as the service sees it                                  *)
(***************************************************************************)
\* redisClient.get(key): rejects, resolves to null when the key is not there,
\* and otherwise resolves to the text written (or to text that is not JSON,
\* when the entry was damaged or written by someone else)
RedisGet(key) ==
  { [threw |-> TRUE, isNull |-> TRUE, text |-> Garbage] }
  \cup (IF key \in DOMAIN store
        THEN { [threw |-> FALSE, isNull |-> FALSE, text |-> store[key]],
               [threw |-> FALSE, isNull |-> FALSE, text |-> Garbage] }
        ELSE { [threw |-> FALSE, isNull |-> TRUE, text |-> Garbage] })

\* The answer carries text that JSON.parse accepts
Readable(o) == ~o.threw /\ ~o.isNull /\ ~JSONparseThrows(o.text)

\* Variant of set that appends to the array already stored under the key
StoreSet_append(st, key, text) ==
  [k \in (DOMAIN st) \cup {key} |->
     IF k # key THEN st[k]
     ELSE IF key \in DOMAIN st /\ st[key].kind = "arr" /\ text.kind = "arr"
          THEN [text EXCEPT !.arr = st[key].arr \o @]
          ELSE text]

\* redisClient.set(key, text, ttl) that resolved
StoreSet(st, key, text) ==
  [k \in (DOMAIN st) \cup {key} |-> IF k = key THEN text ELSE st[k]]

\* redisClient.mDel(keys) that resolved
StoreDel(st, keys) == [k \in (DOMAIN st) \ keys |-> st[k]]

\* A write to the store by one caller while another caller's clearCache sits
\* between its keys() and its mDel()
MarkInterfered(c, self) ==
  [p \in AllCallers |->
     IF p # self /\ c[p].pc = "cc_del" THEN [c[p] EXCEPT !.interfered = TRUE] ELSE c[p]]

(***************************************************************************)
(* Cache helpers of the service: what they hand back for a Redis answer     *)
(***************************************************************************)
CachedNull == [kind |-> "null", arr |-> <<>>, obj |-> NoSat]

\* Variant of getCachedSatellites with the ternary inverted: an entry that is
\* there is reported as a miss
getCachedSatellites_invertedTernary(o) == CachedNull

\* getCachedSatellites: try { get; cached ? JSON.parse(cached) : null } catch { null }
getCachedSatellites(o) ==
  IF o.threw THEN CachedNull
  ELSE IF o.isNull THEN CachedNull
  ELSE IF JSONparseThrows(o.text) THEN CachedNull
  ELSE [kind |-> "val", arr |-> o.text.arr, obj |-> NoSat]

\* getCachedSatellite: the same for one record
getCachedSatellite(o) ==
  IF o.threw THEN CachedNull
  ELSE IF o.isNull THEN CachedNull
  ELSE IF JSONparseThrows(o.text) THEN CachedNull
  ELSE [kind |-> "val", arr |-> <<>>, obj |-> o.text.obj]

\* Variant of cacheSatellites without its try/catch
cacheSatellites_noCatch(setOk) == IF setOk THEN "ok" ELSE "throw"

\* cacheSatellites / cacheSatellite: try { set } catch { log }
cacheSatellites(setOk) == "ok"

cacheSatellite(setOk) == "ok"

(***************************************************************************)
(* Upstream answers                                                         *)
(***************************************************************************)
\* celestrakClient.get(endpoint) followed by the parse: the request rejects,
\* the parser throws on what came back, or a body arrives
HttpOutcomesA(endpoint) ==
  { [kind |-> "reqError", body |-> <<>>] }
  \cup { [kind |-> k, body |-> b] : k \in {"ok", "parseError"}, b \in BodiesA(endpoint) }

\* spaceTrackClient.get('/api/basicspacedata/query')
HttpOutcomesB ==
  { [kind |-> "reqError", body |-> <<>>] } \cup { [kind |-> "ok", body |-> b] : b \in BodiesB }

(***************************************************************************)
(* getSatelliteById and getSatelliteStats after getActiveSatellites came     *)
(* back, and the return of getActiveSatellites to whoever called it         *)
(***************************************************************************)
\* satellites.find(s => s.id === id)
FindById(satellites, id) ==
  IF \E i \in 1..Len(satellites) : satellites[i].id = id
  THEN [found |-> TRUE,
        sat |-> satellites[CHOOSE i \in 1..Len(satellites) :
                             /\ satellites[i].id = id
                             /\ \A j \in 1..(i - 1) : satellites[j].id # id]]
  ELSE [found |-> FALSE, sat |-> NoSat]

\* Variant of the return into getSatelliteById that caches whenever caching is
\* enabled, found or not
ReturnActive_cacheUnfound(c, res) ==
  IF c.op = "getSatelliteById" /\ res.kind = "list"
  THEN LET f == FindById(res.list, c.id) IN
       IF cacheEnabled
       THEN [c EXCEPT !.pc = "bi_set", !.satellites = res.list, !.satellite = f.sat]
       ELSE [c EXCEPT !.pc = "done", !.satellites = res.list,
                      !.result = IF f.found THEN SatResult(f.sat) ELSE NullResult]
  ELSE IF c.op = "getSatelliteStats" /\ res.kind = "list"
  THEN [c EXCEPT !.pc = "done", !.satellites = res.list,
                 !.result = StatsResult(SatelliteStats(res.list))]
  ELSE [c EXCEPT !.pc = "done", !.result = res]

ReturnActive(c, res) ==
  IF c.op = "getSatelliteById" /\ res.kind = "list"
  THEN LET f == FindById(res.list, c.id) IN
       IF f.found /\ cacheEnabled
       THEN [c EXCEPT !.pc = "bi_set", !.satellites = res.list, !.satellite = f.sat]
       ELSE [c EXCEPT !.pc = "done", !.satellites = res.list,
                      !.result = IF f.found THEN SatResult(f.sat) ELSE NullResult]
  ELSE IF c.op = "getSatelliteStats" /\ res.kind = "list"
  THEN [c EXCEPT !.pc = "done", !.satellites = res.list,
                 !.result = StatsResult(SatelliteStats(res.list))]
  ELSE [c EXCEPT !.pc = "done", !.result = res]

\* Entry of getActiveSatellites(filter): the cache is asked first when enabled
StartFetch(c) ==
  [c EXCEPT !.pc = "ga_A", !.idx = 1, !.allSatellites = <<>>, !.reqA = 1]

EnterActive(c, f) ==
  LET c1 == [c EXCEPT !.filter = f, !.cacheKey = ActiveCacheKey(f)] IN
  IF cacheEnabled THEN [c1 EXCEPT !.pc = "ga_get"] ELSE StartFetch(c1)

\* catch (error) { ... fetchFromSpaceTrack() }
StartFallback(c, err) ==
  [c EXCEPT !.pc = "ga_B", !.error = err, !.reqB = @ + 1]

\* Variant of the endpoint loop without its try/catch: an endpoint's error
\* leaves fetchFromCelesTrak
fetchFromCelesTrakStep_noCatch(allSatellites, endpoint, ok, parsed) ==
  IF ok /\ ~parsed.threw
  THEN [threw |-> FALSE,
        all |-> allSatellites \o ConvertAll(parsed.tles, endpoint)]
  ELSE [threw |-> TRUE, all |-> allSatellites]

\* One turn of the endpoint loop of fetchFromCelesTrak: try { get; parse;
\* convert; push } catch { console.warn }, given whether the request was
\* answered and what parseCelesTrakTLE made of the body
fetchFromCelesTrakStep(allSatellites, endpoint, ok, parsed) ==
  IF ok /\ ~parsed.threw
  THEN [threw |-> FALSE,
        all |-> allSatellites \o ConvertAll(parsed.tles, endpoint)]
  ELSE [threw |-> FALSE, all |-> allSatellites]

\* Variant of AfterCelesTrak that treats an empty aggregate as a failure of
\* the provider and falls back
AfterCelesTrak_throwOnEmpty(c, satellites) ==
  IF satellites = <<>> \/ applyFiltersThrows(satellites, c.filter)
  THEN StartFallback(c, IF satellites = <<>> THEN "CelesTrakError" ELSE "TypeError")
  ELSE LET filteredSatellites == applyFilters(satellites, c.filter) IN
       IF cacheEnabled
       THEN [c EXCEPT !.pc = "ga_setA", !.filteredSatellites = filteredSatellites]
       ELSE ReturnActive(c, ListResult(filteredSatellites))

\* Lines 98-114 after fetchFromCelesTrak resolved: filter, then cache or return
AfterCelesTrak(c, satellites) ==
  IF applyFiltersThrows(satellites, c.filter)
  THEN StartFallback(c, "TypeError")
  ELSE LET filteredSatellites == applyFilters(satellites, c.filter) IN
       IF cacheEnabled
       THEN [c EXCEPT !.pc = "ga_setA", !.filteredSatellites = filteredSatellites]
       ELSE ReturnActive(c, ListResult(filteredSatellites))

FetchFailed(c, fallbackError) ==
  ReturnActive(c, ErrorResult("SATELLITE_FETCH_FAILED", << c.error, fallbackError >>))

\* Lines 121-134 after fetchFromSpaceTrack resolved
AfterSpaceTrack(c, satellites) ==
  IF applyFiltersThrows(satellites, c.filter)
  THEN FetchFailed(c, "TypeError")
  ELSE LET filteredSatellites == applyFilters(satellites, c.filter) IN
       IF cacheEnabled
       THEN [c EXCEPT !.pc = "ga_setB", !.filteredSatellites = filteredSatellites]
       ELSE ReturnActive(c, ListResult(filteredSatellites))

(***************************************************************************)
(* Actions: calls                                                           *)
(***************************************************************************)
CanCall(p) == p \in callers /\ call[p].pc \in {"idle", "done"}

CallActive(p, filters) ==
  /\ CanCall(p)
  /\ \E f \in filters :
       call' = [call EXCEPT ![p] =
                  EnterActive([Fresh EXCEPT !.op = "getActiveSatellites"], f)]
  /\ UNCHANGED << cacheEnabled, callers, store, now, input, output, redisClient >>

Call_getActiveSatellites(p) == CallActive(p, Filters)

Call_getSatelliteById(p) ==
  /\ CanCall(p)
  /\ \E id \in Ids :
       LET c == [Fresh EXCEPT !.op = "getSatelliteById", !.id = id] IN
       call' = [call EXCEPT ![p] =
                  IF cacheEnabled THEN [c EXCEPT !.pc = "bi_get"]
                  ELSE EnterActive(c, NoFilter)]
  /\ UNCHANGED << cacheEnabled, callers, store, now, input, output, redisClient >>

Call_clearCache(p) ==
  /\ CanCall(p)
  /\ call' = [call EXCEPT ![p] =
                [Fresh EXCEPT !.op = "clearCache", !.pc = "cc_keys", !.startedAt = now]]
  /\ UNCHANGED << cacheEnabled, callers, store, now, input, output, redisClient >>

(***************************************************************************)
(* Actions: getActiveSatellites                                             *)
(***************************************************************************)
\* await getCachedSatellites(cacheKey) resolved
GA_CacheGet(p) ==
  /\ p \in callers /\ call[p].pc = "ga_get"
  /\ \E o \in RedisGet(call[p].cacheKey) :
       LET c == [call[p] EXCEPT !.get = o, !.idGet = NoGet]
           cached == getCachedSatellites(o)
       IN  call' = [call EXCEPT ![p] =
             CASE cached.kind = "val" -> ReturnActive(c, ListResult(cached.arr))
               [] cached.kind = "throw" -> ReturnActive(c, ErrorResult("RedisError", <<>>))
               [] OTHER -> StartFetch(c)]
  /\ UNCHANGED << cacheEnabled, callers, store, now, input, output, redisClient >>

\* The caller after the endpoint at idx settled with outcome and the turn of
\* the loop gave r: the next endpoint, or lines 98-114 after the last one
EndpointSettled(c0, outcome, r) ==
  LET c == [c0 EXCEPT
              !.get = NoGet,
              !.fetchedAt = now,
              !.anyOkA = @ \/ outcome.kind = "ok",
              !.anyFailA = @ \/ outcome.kind # "ok",
              !.servedA = IF outcome.kind = "ok" THEN @ \o outcome.body ELSE @,
              !.allSatellites = r.all]
  IN  IF r.threw THEN StartFallback(c, "CelesTrakError")
      ELSE IF c.idx < NumEndpoints
           THEN [c EXCEPT !.idx = @ + 1, !.reqA = @ + 1]
           ELSE AfterCelesTrak(c, r.all)

\* await celestrakClient.get(endpoint) settled, for the endpoint at idx
CelesTrakResponse(p, outcomes) ==
  /\ p \in callers /\ call[p].pc = "ga_A"
  /\ \E outcome \in outcomes[endpoints[call[p].idx]] :
       call' = [call EXCEPT ![p] =
         EndpointSettled(call[p], outcome,
           fetchFromCelesTrakStep(call[p].allSatellites, endpoints[call[p].idx],
                                  outcome.kind = "ok",
                                  parseCelesTrakTLE(outcome.body)))]
  /\ UNCHANGED << cacheEnabled, callers, store, now, input, output, redisClient >>

GA_CelesTrakResponse(p) ==
  CelesTrakResponse(p, [e \in EndpointSet |-> HttpOutcomesA(e)])

\* await cacheSatellites(cacheKey, filteredSatellites) resolved, first provider
GA_CacheSetA(p) ==
  /\ p \in callers /\ call[p].pc = "ga_setA"
  /\ \E setOk \in BOOLEAN :
       LET c == [call[p] EXCEPT !.setOut = IF setOk THEN "ok" ELSE "threw"]
           st == IF setOk
                 THEN StoreSet(store, c.cacheKey,
                               JSONstringifySatellites(c.filteredSatellites))
                 ELSE store
           mine == IF cacheSatellites(setOk) = "throw"
                   THEN StartFallback(c, "RedisError")
                   ELSE ReturnActive(c, ListResult(c.filteredSatellites))
       IN  /\ store' = st
           /\ call' = [IF setOk THEN MarkInterfered(call, p) ELSE call EXCEPT ![p] = mine]
  /\ UNCHANGED << cacheEnabled, callers, now, input, output, redisClient >>

\* await spaceTrackClient.get(...) settled
GA_SpaceTrackResponse(p) ==
  /\ p \in callers /\ call[p].pc = "ga_B"
  /\ \E outcome \in HttpOutcomesB :
       LET c == [call[p] EXCEPT
                   !.bOut = IF outcome.kind = "ok" THEN "ok" ELSE "failed",
                   !.servedB = outcome.body]
           parsed == parseSpaceTrackTLE(outcome.body)
       IN  call' = [call EXCEPT ![p] =
             IF outcome.kind # "ok" THEN FetchFailed(c, "SpaceTrackError")
             ELSE IF parsed.threw THEN FetchFailed(c, "RangeError")
             ELSE AfterSpaceTrack(c, ConvertAll(parsed.tles, "space-track"))]
  /\ UNCHANGED << cacheEnabled, callers, store, now, input, output, redisClient >>

\* await cacheSatellites(cacheKey, filteredSatellites) resolved, fallback
GA_CacheSetB(p) ==
  /\ p \in callers /\ call[p].pc = "ga_setB"
  /\ \E setOk \in BOOLEAN :
       LET c == [call[p] EXCEPT !.setOut = IF setOk THEN "ok" ELSE "threw"]
           st == IF setOk
                 THEN StoreSet(store, c.cacheKey,
                               JSONstringifySatellites(c.filteredSatellites))
                 ELSE store
           mine == IF cacheSatellites(setOk) = "throw"
                   THEN FetchFailed(c, "RedisError")
                   ELSE ReturnActive(c, ListResult(c.filteredSatellites))
       IN  /\ store' = st
           /\ call' = [IF setOk THEN MarkInterfered(call, p) ELSE call EXCEPT ![p] = mine]
  /\ UNCHANGED << cacheEnabled, callers, now, input, output, redisClient >>

(***************************************************************************)
(* Actions: getSatelliteById                                                *)
(***************************************************************************)
\* await getCachedSatellite(`satellite:${id}`) resolved
BI_CacheGet(p) ==
  /\ p \in callers /\ call[p].pc = "bi_get"
  /\ \E o \in RedisGet(IdCacheKey(call[p].id)) :
       LET c == [call[p] EXCEPT !.idGet = o]
           cached == getCachedSatellite(o)
       IN  call' = [call EXCEPT ![p] =
             CASE cached.kind = "val" ->
                    [c EXCEPT !.pc = "done", !.result = SatResult(cached.obj)]
               [] cached.kind = "throw" ->
                    [c EXCEPT !.pc = "done", !.result = ErrorResult("RedisError", <<>>)]
               [] OTHER -> EnterActive(c, NoFilter)]
  /\ UNCHANGED << cacheEnabled, callers, store, now, input, output, redisClient >>

\* await cacheSatellite(cacheKey, satellite) resolved
BI_CacheSet(p) ==
  /\ p \in callers /\ call[p].pc = "bi_set"
  /\ \E setOk \in BOOLEAN :
       LET c == [call[p] EXCEPT !.idSetOut = IF setOk THEN "ok" ELSE "threw"]
           st == IF setOk
                 THEN StoreSet(store, IdCacheKey(c.id), JSONstringifySatellite(c.satellite))
                 ELSE store
           mine == IF cacheSatellite(setOk) = "throw"
                   THEN [c EXCEPT !.pc = "done", !.result = ErrorResult("RedisError", <<>>)]
                   ELSE [c EXCEPT !.pc = "done", !.result = SatResult(c.satellite)]
       IN  /\ store' = st
           /\ call' = [IF setOk THEN MarkInterfered(call, p) ELSE call EXCEPT ![p] = mine]
  /\ UNCHANGED << cacheEnabled, callers, now, input, output, redisClient >>

(***************************************************************************)
(* Actions: clearCache                                                      *)
(***************************************************************************)
\* The text holds a record converted before time t
FetchedBefore(text, t) ==
  text.kind = "arr" /\ \E i \in 1..Len(text.arr) : text.arr[i].lastUpdated < t

\* The keys under the clear pattern whose entry holds a record older than t
OlderEntries(st, t) ==
  {k \in DOMAIN st : MatchesClearPattern(k) /\ FetchedBefore(st[k], t)}

\* await redisClient.keys('satellites:*') settled
CC_Keys(p) ==
  /\ p \in callers /\ call[p].pc = "cc_keys"
  /\ \E ok \in BOOLEAN :
       LET keys == {k \in DOMAIN store : MatchesClearPattern(k)}
           c == [call[p] EXCEPT !.keysOut = IF ok THEN "ok" ELSE "threw"]
       IN  call' = [call EXCEPT ![p] =
             IF ok /\ keys # {}
             THEN [c EXCEPT !.pc = "cc_del", !.keys = keys]
             ELSE [c EXCEPT !.pc = "done", !.result = VoidResult,
                            !.olderLeft = OlderEntries(store, c.startedAt)]]
  /\ UNCHANGED << cacheEnabled, callers, store, now, input, output, redisClient >>

\* await redisClient.mDel(keys) settled
CC_Del(p) ==
  /\ p \in callers /\ call[p].pc = "cc_del"
  /\ \E ok \in BOOLEAN :
       /\ store' = IF ok THEN StoreDel(store, call[p].keys) ELSE store
       /\ call' = [call EXCEPT ![p] =
                     [@ EXCEPT !.pc = "done", !.result = VoidResult,
                               !.delOut = IF ok THEN "ok" ELSE "threw",
                               !.olderLeft =
                                 OlderEntries(IF ok THEN StoreDel(store, call[p].keys)
                                              ELSE store, call[p].startedAt)]]
  /\ UNCHANGED << cacheEnabled, callers, now, input, output, redisClient >>

(***************************************************************************)
(* Actions of the store's environment                                       *)
(***************************************************************************)
\* An entry reaches the end of its TTL
StoreExpire ==
  /\ \E k \in DOMAIN store : store' = StoreDel(store, {k})
  /\ UNCHANGED << cacheEnabled, callers, call, now, input, output, redisClient >>

(***************************************************************************)
(* Specification                                                            *)
(***************************************************************************)
Next ==
  \/ \E p \in AllCallers : Call_getActiveSatellites(p)
  \/ \E p \in AllCallers : Call_getSatelliteById(p)
  \/ \E p \in AllCallers : Call_clearCache(p)
  \/ \E p \in AllCallers : GA_CacheGet(p)
  \/ \E p \in AllCallers : GA_CelesTrakResponse(p)
  \/ \E p \in AllCallers : GA_CacheSetA(p)
  \/ \E p \in AllCallers : GA_SpaceTrackResponse(p)
  \/ \E p \in AllCallers : GA_CacheSetB(p)
  \/ \E p \in AllCallers : BI_CacheGet(p)
  \/ \E p \in AllCallers : BI_CacheSet(p)
  \/ \E p \in AllCallers : CC_Keys(p)
  \/ \E p \in AllCallers : CC_Del(p)
  \/ StoreExpire

Spec == Init /\ [][Next]_vars

(***************************************************************************)
(* The cache key alone: two callers enter getActiveSatellites with filters  *)
(* that state the same or different criteria in several orders              *)
(***************************************************************************)
P_type == [k |-> "type", v |-> VArr(<<"space-station">>)]
P_typeWeather == [k |-> "type", v |-> VArr(<<"weather">>)]
P_active == [k |-> "isActive", v |-> VBool(TRUE)]
P_inactive == [k |-> "isActive", v |-> VBool(FALSE)]
P_activeUndef == [k |-> "isActive", v |-> VUndef]
P_altitude == [k |-> "altitudeRange", v |-> VRange(0, 2000)]

KeyFilters ==
  { NoFilter, FilterObj(<<>>), FilterObj(<<P_activeUndef>>),
    FilterObj(<<P_type>>), FilterObj(<<P_typeWeather>>),
    FilterObj(<<P_active>>), FilterObj(<<P_inactive>>),
    FilterObj(<<P_type, P_active>>), FilterObj(<<P_active, P_type>>),
    FilterObj(<<P_type, P_altitude>>), FilterObj(<<P_altitude, P_type>>) }

InitKey ==
  /\ cacheEnabled \in BOOLEAN
  /\ callers = AllCallers
  /\ store = [k \in {} |-> Garbage]
  /\ call = [p \in AllCallers |-> Fresh]
  /\ now = 0
  /\ input = NoValue
  /\ output = NoValue
  /\ redisClient = NotConnected

KeyCall(p) == CallActive(p, KeyFilters)

NextKey == \E p \in AllCallers : KeyCall(p)

SpecKey == InitKey /\ [][NextKey]_vars

(***************************************************************************)
(* Concurrent callers: both callers run getActiveSatellites while the clock *)
(* advances; CelesTrak answers every endpoint with its list.                *)
(***************************************************************************)
RaceFilters == {NoFilter}

RaceOutcomesA(endpoint) == { [kind |-> "ok", body |-> FeedA(endpoint)] }

InitRace ==
  /\ cacheEnabled = TRUE
  /\ callers = AllCallers
  /\ store = [k \in {} |-> Garbage]
  /\ call = [p \in AllCallers |-> Fresh]
  /\ now = 0
  /\ input = NoValue
  /\ output = NoValue
  /\ redisClient = NotConnected

Race_Call(p) == CallActive(p, RaceFilters)

Race_CelesTrakResponse(p) ==
  CelesTrakResponse(p, [e \in EndpointSet |-> RaceOutcomesA(e)])

\* Time passes between two steps
Tick ==
  /\ now < MaxNow
  /\ now' = now + 1
  /\ UNCHANGED << cacheEnabled, callers, store, call, input, output, redisClient >>

NextRace ==
  \/ \E p \in AllCallers : Race_Call(p)
  \/ \E p \in AllCallers : GA_CacheGet(p)
  \/ \E p \in AllCallers : Race_CelesTrakResponse(p)
  \/ \E p \in AllCallers : GA_CacheSetA(p)
  \/ Tick

SpecRace == InitRace /\ [][NextRace]_vars

(***************************************************************************)
(* An upstream that may serve a damaged element set: data lines of the      *)
(* right length and leading character whose mean-motion and inclination     *)
(* columns hold no number.  One caller asks for the collection or for its   *)
(* statistics under range and membership filters and an unvalidated one,    *)
(* with caching disabled; Space-Track answers when the fallback is taken.   *)
(***************************************************************************)
\* 1 40001U 14001A   24001.50000000  .00000000  00000-0  00015-0 0  9999
LEO_line1 ==
  <<"1"," ","4","0","0","0","1","U"," ","1","4","0","0","1","A"," "," "," ",
    "2","4","0","0","1",".","5","0","0","0","0","0","0","0"," "," ",".","0",
    "0","0","0","0","0","0","0"," "," ","0","0","0","0","0","-","0"," "," ",
    "0","0","0","1","5","-","0"," ","0"," "," ","9","9","9","9">>

\* 2 40001  45.0000 200.0000 0014000  90.0000 270.0000 14.12000000765434
LEO_line2 ==
  <<"2"," ","4","0","0","0","1"," "," ","4","5",".","0","0","0","0"," ","2",
    "0","0",".","0","0","0","0"," ","0","0","1","4","0","0","0"," "," ","9",
    "0",".","0","0","0","0"," ","2","7","0",".","0","0","0","0"," ","1","4",
    ".","1","2","0","0","0","0","0","0","7","6","5","4","3","4">>

\* 1 40002U 14001B   24001.50000000  .00000000  00000-0  ?????-? 0  9994
Damaged_line1 ==
  <<"1"," ","4","0","0","0","2","U"," ","1","4","0","0","1","B"," "," "," ",
    "2","4","0","0","1",".","5","0","0","0","0","0","0","0"," "," ",".","0",
    "0","0","0","0","0","0","0"," "," ","0","0","0","0","0","-","0"," "," ",
    "?","?","?","?","?","-","?"," ","0"," "," ","9","9","9","4">>

\* 2 40002  ??.???? 200.0000 0014000  90.0000 270.0000 14.12000000765436
Damaged_line2 ==
  <<"2"," ","4","0","0","0","2"," "," ","?","?",".","?","?","?","?"," ","2",
    "0","0",".","0","0","0","0"," ","0","0","1","4","0","0","0"," "," ","9",
    "0",".","0","0","0","0"," ","2","7","0",".","0","0","0","0"," ","1","4",
    ".","1","2","0","0","0","0","0","0","7","6","5","4","3","6">>

DamagedList ==
  << [name |-> <<"G","P","S">>, line1 |-> LEO_line1, line2 |-> LEO_line2],
     [name |-> <<"D","E","B">>, line1 |-> Damaged_line1, line2 |-> Damaged_line2] >>

DamagedOutcomesA(endpoint) ==
  { [kind |-> "ok", body |-> FeedA(endpoint)],
    [kind |-> "ok",
     body |-> IF endpoint = "/active.txt" THEN TextOf(DamagedList) ELSE <<>>] }

P_altitudeHigh == [k |-> "altitudeRange", v |-> VRange(2000, 40000)]
P_inclination == [k |-> "inclinationRange", v |-> VRange(0, 60)]
P_typeNavigation == [k |-> "type", v |-> VArr(<<"navigation", "space-station">>)]
P_orbitLEO == [k |-> "orbitType", v |-> VArr(<<"low-earth-orbit">>)]

P_country == [k |-> "country", v |-> VArr(<<"USA">>)]
P_countryUnknown == [k |-> "country", v |-> VArr(<<"USA", "Unknown">>)]
P_operator == [k |-> "operator", v |-> VArr(<<"NASA">>)]
P_operatorNone == [k |-> "operator", v |-> VArr(<<>>)]

RangeFilters ==
  { NoFilter, FilterObj(<<P_altitude>>), FilterObj(<<P_altitudeHigh>>),
    FilterObj(<<P_inclination>>), FilterObj(<<P_typeNavigation>>),
    FilterObj(<<P_orbitLEO, P_active>>), FilterObj(<<P_inactive>>),
    FilterObj(<<P_typeNavigation, P_altitude, P_inclination>>),
    FilterObj(<<P_country>>), FilterObj(<<P_countryUnknown>>),
    FilterObj(<<P_operator>>), FilterObj(<<P_operatorNone>>), F_badType }

InitDamaged ==
  /\ cacheEnabled = FALSE
  /\ callers = {"c1"}
  /\ store = [k \in {} |-> Garbage]
  /\ call = [p \in AllCallers |-> Fresh]
  /\ now = 0
  /\ input = NoValue
  /\ output = NoValue
  /\ redisClient = NotConnected

Damaged_getActiveSatellites(p) == CallActive(p, RangeFilters)

\* getSatelliteStats(filter): const satellites = await this.getActiveSatellites(filter)
Call_getSatelliteStats(p) ==
  /\ CanCall(p)
  /\ \E f \in RangeFilters :
       call' = [call EXCEPT ![p] =
                  EnterActive([Fresh EXCEPT !.op = "getSatelliteStats"], f)]
  /\ UNCHANGED << cacheEnabled, callers, store, now, input, output, redisClient >>

Damaged_CelesTrakResponse(p) ==
  CelesTrakResponse(p, [e \in EndpointSet |-> DamagedOutcomesA(e)])

NextDamaged ==
  \/ \E p \in AllCallers : Damaged_getActiveSatellites(p)
  \/ \E p \in AllCallers : Call_getSatelliteStats(p)
  \/ \E p \in AllCallers : Damaged_CelesTrakResponse(p)
  \/ \E p \in AllCallers : GA_SpaceTrackResponse(p)

SpecDamaged == InitDamaged /\ [][NextDamaged]_vars

(***************************************************************************)
(* clearCache beside getActiveSatellites: two callers, caching enabled, two *)
(* filters (two keys); CelesTrak answers every endpoint with its list and   *)
(* the clock advances.                                                      *)
(***************************************************************************)
ClearFilters == {NoFilter, F_station}

Clear_getActiveSatellites(p) == CallActive(p, ClearFilters)

NextClear ==
  \/ \E p \in AllCallers : Clear_getActiveSatellites(p)
  \/ \E p \in AllCallers : Call_clearCache(p)
  \/ \E p \in AllCallers : GA_CacheGet(p)
  \/ \E p \in AllCallers : Race_CelesTrakResponse(p)
  \/ \E p \in AllCallers : GA_CacheSetA(p)
  \/ \E p \in AllCallers : CC_Keys(p)
  \/ \E p \in AllCallers : CC_Del(p)
  \/ Tick

SpecClear == InitRace /\ [][NextClear]_vars

(***************************************************************************)
(* Write-through under a damaged element set: one caller, caching enabled,  *)
(* no filter; CelesTrak serves its lists or the damaged list, the entry     *)
(* written by a miss is read back by the next call.                         *)
(***************************************************************************)
InitWrite ==
  /\ cacheEnabled = TRUE
  /\ callers = {"c1"}
  /\ store = [k \in {} |-> Garbage]
  /\ call = [p \in AllCallers |-> Fresh]
  /\ now = 0
  /\ input = NoValue
  /\ output = NoValue
  /\ redisClient = NotConnected

Write_getActiveSatellites(p) == CallActive(p, {NoFilter})

NextWrite ==
  \/ \E p \in AllCallers : Write_getActiveSatellites(p)
  \/ \E p \in AllCallers : GA_CacheGet(p)
  \/ \E p \in AllCallers : Damaged_CelesTrakResponse(p)
  \/ \E p \in AllCallers : GA_CacheSetA(p)
  \/ StoreExpire

SpecWrite == InitWrite /\ [][NextWrite]_vars

(***************************************************************************)
(* The RedisClient wrapper alone: two callers issue get(key) or             *)
(* disconnect() while the node-redis client emits its connection events.    *)
(* The wrapper keeps one flag, isConnected, written only by the event       *)
(* handlers; the socket is the library's: it is open from the call of       *)
(* client.connect() until it is closed, and client.connect() on an open     *)
(* socket rejects with 'Socket already opened'.                             *)
(***************************************************************************)
\* client.isOpen
isOpen(rc) == rc.socket # "closed"

\* ensureConnected() -> connect() -> client.connect(), up to the first
\* suspension: whether client.connect() was called, whether it was called on
\* an open socket (and rejected), and the client afterwards
ensureConnected(rc) ==
  IF rc.isConnected
  THEN [called |-> FALSE, whileOpen |-> FALSE, rc |-> rc]
  ELSE IF isOpen(rc)
       THEN [called |-> TRUE, whileOpen |-> TRUE, rc |-> rc]
       ELSE [called |-> TRUE, whileOpen |-> FALSE, rc |-> [rc EXCEPT !.socket = "connecting"]]

\* The caller after the synchronous part of get(key)
EnterGet(e) ==
  [Fresh EXCEPT
     !.op = "redisClient.get",
     !.pc = IF e.whileOpen THEN "done" ELSE IF e.called THEN "rc_connect" ELSE "rc_command",
     !.error = IF e.whileOpen THEN "Socket already opened" ELSE "none",
     !.result = IF e.whileOpen THEN ErrorResult("Socket already opened", <<>>) ELSE NoResult]

\* Every pending client.connect() and every pending command rejects
RejectPending(c, message) ==
  [p \in AllCallers |->
     IF c[p].pc \in {"rc_connect", "rc_command"}
     THEN [c[p] EXCEPT !.pc = "done", !.error = message,
                       !.result = ErrorResult(message, <<>>)]
     ELSE c[p]]

\* get(key) is called
Redis_get(p) ==
  /\ CanCall(p)
  /\ redisClient' = ensureConnected(redisClient).rc
  /\ call' = [call EXCEPT ![p] = EnterGet(ensureConnected(redisClient))]
  /\ UNCHANGED << cacheEnabled, callers, store, now, input, output >>

\* disconnect() is called: if (this.isConnected) await this.client.disconnect(),
\* which closes the socket, rejects what is pending and emits 'end'
Redis_disconnect(p) ==
  /\ CanCall(p)
  /\ redisClient' = IF redisClient.isConnected THEN NotConnected ELSE redisClient
  /\ call' = [IF redisClient.isConnected
              THEN RejectPending(call, "The client is closed") ELSE call
              EXCEPT ![p] = [Fresh EXCEPT !.op = "redisClient.disconnect",
                                          !.pc = "done", !.result = VoidResult]]
  /\ UNCHANGED << cacheEnabled, callers, store, now, input, output >>

\* 'connect': the socket is connected; the handler sets isConnected, and the
\* pending client.connect() resolves, so its caller goes on to client.get
Socket_connect ==
  /\ redisClient.socket \in {"connecting", "reconnecting"}
  /\ redisClient' = [isConnected |-> TRUE, socket |-> "ready"]
  /\ call' = [p \in AllCallers |->
                IF call[p].pc = "rc_connect" THEN [call[p] EXCEPT !.pc = "rc_command"]
                ELSE call[p]]
  /\ UNCHANGED << cacheEnabled, callers, store, now, input, output >>

\* 'error' on an open socket: the handler clears isConnected, the library
\* keeps the socket open and reconnects by its reconnectStrategy
Socket_error ==
  /\ isOpen(redisClient)
  /\ redisClient' = [isConnected |-> FALSE, socket |-> "reconnecting"]
  /\ UNCHANGED << cacheEnabled, callers, store, call, now, input, output >>

\* reconnectStrategy returned an Error ('Max retries reached'): the socket is
\* closed, 'error' is emitted and what is pending rejects
Socket_closed ==
  /\ redisClient.socket \in {"connecting", "reconnecting"}
  /\ redisClient' = NotConnected
  /\ call' = RejectPending(call, "Max retries reached")
  /\ UNCHANGED << cacheEnabled, callers, store, now, input, output >>

\* await this.client.get(key) settled: the reply on a ready socket, a
\* rejection on a closed one; on a socket that is connecting it stays queued
Redis_reply(p) ==
  /\ p \in callers /\ call[p].pc = "rc_command"
  /\ redisClient.socket \in {"ready", "closed"}
  /\ call' = [call EXCEPT ![p] =
       IF redisClient.socket = "ready"
       THEN [@ EXCEPT !.pc = "done", !.result = NullResult]
       ELSE [@ EXCEPT !.pc = "done", !.error = "The client is closed",
                      !.result = ErrorResult("The client is closed", <<>>)]]
  /\ UNCHANGED << cacheEnabled, callers, store, now, input, output, redisClient >>

NextConn ==
  \/ \E p \in AllCallers : Redis_get(p)
  \/ \E p \in AllCallers : Redis_disconnect(p)
  \/ \E p \in AllCallers : Redis_reply(p)
  \/ Socket_connect
  \/ Socket_error
  \/ Socket_closed

SpecConn == InitRace /\ [][NextConn]_vars

(***************************************************************************)
(* The expiry of a cache write alone: the environment variable              *)
(* REDIS_TTL_SATELLITE_DATA and the cacheTTL a constructor argument may     *)
(* give decide config.cacheTTL; cacheSatellites and cacheSatellite hand it  *)
(* to RedisClient.set, which chooses the command.                           *)
(***************************************************************************)
EnvUnset == [set |-> FALSE, text |-> <<>>]
EnvText(text) == [set |-> TRUE, text |-> text]

TtlEnvValues ==
  { EnvUnset } \cup
  { EnvText(t) : t \in { <<>>, <<"3","0","0">>, <<"6","0">>, <<"1">>, <<"0">>,
                         <<"0","0">>, <<" ","3","0">>, <<"6","0","s">>,
                         <<"a","b","c">>, <<"s","6","0">>, <<"-","5">>,
                         <<"1",".","9">> } }

\* new SatelliteService(config): config.cacheTTL absent or a number
NoOverride == [given |-> FALSE, v |-> NaN]
Override(v) == [given |-> TRUE, v |-> v]
TtlOverrides == { NoOverride, Override(Num(0)), Override(Num(60)), Override(NaN) }

\* getApiConfig().redis.ttl.satelliteData:
\* parseInt(process.env.REDIS_TTL_SATELLITE_DATA || '300')
satelliteDataTtl(env) ==
  parseInt(IF env.set /\ env.text # <<>> THEN env.text ELSE <<"3","0","0">>)

\* this.config = { ..., cacheTTL: apiConfig.redis.ttl.satelliteData, ...config }
cacheTTL(env, override) ==
  IF override.given THEN override.v ELSE satelliteDataTtl(env)

\* RedisClient.set(key, value, ttlSeconds): if (ttlSeconds) setEx(key,
\* ttlSeconds, value) else set(key, value).  SETEX with a time that is not
\* positive is refused by the server and nothing is stored.
RedisSet(ttlSeconds) ==
  IF ~IsNaN(ttlSeconds) /\ ttlSeconds.v # 0
  THEN [stored |-> ttlSeconds.v > 0, cmd |-> "SETEX", ttl |-> ttlSeconds]
  ELSE [stored |-> TRUE, cmd |-> "SET", ttl |-> NaN]

InitTtl ==
  /\ cacheEnabled = TRUE
  /\ callers = {}
  /\ store = [k \in {} |-> Garbage]
  /\ call = [p \in AllCallers |-> Fresh]
  /\ now = 0
  /\ input \in [fn : {"cacheSatellites", "cacheSatellite"},
                 env : TtlEnvValues, override : TtlOverrides]
  /\ output = NoValue
  /\ redisClient = NotConnected

\* await this.redisClient.set(key, JSON.stringify(...), this.config.cacheTTL)
Apply_cacheWrite ==
  /\ output = NoValue
  /\ output' = [fn |-> "set", cacheTTL |-> cacheTTL(input.env, input.override),
                written |-> RedisSet(cacheTTL(input.env, input.override))]
  /\ UNCHANGED << cacheEnabled, callers, store, call, now, input, redisClient >>

NextTtl == Apply_cacheWrite

SpecTtl == InitTtl /\ [][NextTtl]_vars

(***************************************************************************)
(* The HTTP server's routing alone: a GET request for a path of up to three *)
(* segments is dispatched to the first registered route whose pattern       *)
(* matches it; a handler answers and never passes the request on.           *)
(***************************************************************************)
\* app.get(path, handler) in registration order; a pattern segment that
\* begins with ':' is a parameter
Param(name) == [param |-> TRUE, text |-> name]
Lit(text) == [param |-> FALSE, text |-> text]

routes ==
  << [pattern |-> << Lit("health") >>, handler |-> "health"],
     [pattern |-> << Lit("api"), Lit("test") >>, handler |-> "testSatelliteAPI"],
     [pattern |-> << Lit("api"), Lit("test"), Lit("space-track") >>,
      handler |-> "testSpaceTrack"],
     [pattern |-> << Lit("api"), Lit("satellites") >>, handler |-> "getSatellites"],
     [pattern |-> << Lit("api"), Lit("satellites"), Param("id") >>,
      handler |-> "getSatelliteById"],
     [pattern |-> << Lit("api"), Lit("satellites"), Lit("stats") >>,
      handler |-> "getSatelliteStats"] >>

PathSegments == {"health", "api", "test", "space-track", "satellites", "stats", "25544"}

RequestPaths ==
  { <<>> } \cup { <<a>> : a \in PathSegments }
  \cup { <<a, b>> : a \in PathSegments, b \in PathSegments }
  \cup { <<a, b, c>> : a \in PathSegments, b \in PathSegments, c \in PathSegments }

\* The route's pattern matches the path: the same number of segments, each
\* equal to the literal or bound to the parameter
MatchRoute(pattern, path) ==
  /\ Len(pattern) = Len(path)
  /\ \A i \in 1..Len(pattern) : pattern[i].param \/ pattern[i].text = path[i]

\* req.params.id of the matched route, '' when the pattern has no parameter
ParamOf(pattern, path) ==
  IF \E i \in 1..Len(pattern) : pattern[i].param
  THEN path[CHOOSE i \in 1..Len(pattern) : pattern[i].param]
  ELSE ""

\* The router: the first matching route in registration order, the 404
\* handler (app.use after the routes) when none matches
dispatch(path) ==
  IF \E i \in 1..Len(routes) : MatchRoute(routes[i].pattern, path)
  THEN LET first == CHOOSE i \in 1..Len(routes) :
                      /\ MatchRoute(routes[i].pattern, path)
                      /\ \A j \in 1..(i - 1) : ~MatchRoute(routes[j].pattern, path)
       IN  [handler |-> routes[first].handler, id |-> ParamOf(routes[first].pattern, path)]
  ELSE [handler |-> "notFound", id |-> ""]

InitRoute ==
  /\ cacheEnabled = TRUE
  /\ callers = {}
  /\ store = [k \in {} |-> Garbage]
  /\ call = [p \in AllCallers |-> Fresh]
  /\ now = 0
  /\ input \in [fn : {"GET"}, path : RequestPaths]
  /\ output = NoValue
  /\ redisClient = NotConnected

Apply_dispatch ==
  /\ output = NoValue
  /\ output' = [fn |-> "route", route |-> dispatch(input.path)]
  /\ UNCHANGED << cacheEnabled, callers, store, call, now, input, redisClient >>

NextRoute == Apply_dispatch

SpecRoute == InitRoute /\ [][NextRoute]_vars

(***************************************************************************)
(* The parsers alone: a text of up to MaxGroups groups of three lines, and  *)
(* possibly a partial group after them, is given to parseCelesTrakTLE, and  *)
(* the same groups as JSON items to parseSpaceTrackTLE.  The groups are     *)
(* well formed or damaged in one respect.                                   *)
(***************************************************************************)
MaxGroups == 2

\* 1 40003U 14001C   ?????.????????  .00000000  00000-0  00015-0 0  9991
BadEpoch_line1 ==
  <<"1"," ","4","0","0","0","3","U"," ","1","4","0","0","1","C"," "," "," ",
    "?","?","?","?","?",".","?","?","?","?","?","?","?","?"," "," ",".","0",
    "0","0","0","0","0","0","0"," "," ","0","0","0","0","0","-","0"," "," ",
    "0","0","0","1","5","-","0"," ","0"," "," ","9","9","9","1">>

\* A line with its last character (the checksum digit) replaced
WithLast(line, ch) == SubSeq(line, 1, Len(line) - 1) \o << ch >>

G_iss == [name |-> <<"I","S","S">>, line1 |-> ISS_line1, line2 |-> ISS_line2]
G_hst == [name |-> <<"H","S","T">>, line1 |-> HST_line1, line2 |-> HST_line2]
G_badsum == [name |-> <<"S","U","M">>, line1 |-> WithLast(ISS_line1, "0"),
             line2 |-> WithLast(ISS_line2, "0")]
G_short == [name |-> <<"C","U","T">>, line1 |-> SubSeq(ISS_line1, 1, 68),
            line2 |-> ISS_line2]
G_leader == [name |-> <<"L","E","D">>, line1 |-> ISS_line2, line2 |-> ISS_line2]
G_noname == [name |-> <<>>, line1 |-> ISS_line1, line2 |-> ISS_line2]
G_epoch == [name |-> <<"E","P","O">>, line1 |-> BadEpoch_line1, line2 |-> LEO_line2]
G_padded == [name |-> <<" ","P","A","D"," ">>, line1 |-> <<" ">> \o ISS_line1,
             line2 |-> ISS_line2 \o <<" ">>]

Groups == {G_iss, G_hst, G_badsum, G_short, G_leader, G_noname, G_epoch, G_padded}

\* Sequences of at most n groups
RECURSIVE GroupSeqs(_)
GroupSeqs(n) ==
  IF n = 0 THEN { <<>> }
  ELSE LET shorter == GroupSeqs(n - 1) IN
       shorter \cup {Append(gs, g) : gs \in shorter, g \in Groups}

\* The lines of a partial group at the end of a text
Tails == { <<>>, << G_iss.name >>, << G_iss.name, G_iss.line1 >> }

TLEInputs == [fn : {"tle"}, groups : GroupSeqs(MaxGroups), tail : Tails]

\* The text CelesTrak would serve for an input, and the items of Space-Track
RawTextOf(in) == TextOf(in.groups) \o in.tail
ItemsOf(in) == [i \in 1..Len(in.groups) |-> ItemOf(in.groups[i])]

\* console.warn of isValidTLE during parseTLE: the names warned about, in order
RECURSIVE WarningsFrom(_, _, _)
WarningsFrom(lines, g, names) ==
  IF 3 * g > Len(lines) THEN names
  ELSE LET name == trim(lines[3 * g - 2])
           line1 == trim(lines[3 * g - 1])
           line2 == trim(lines[3 * g])
       IN  IF ~isValidTLE(name, line1, line2)
           THEN WarningsFrom(lines, g + 1, names)
           ELSE LET warned == IF ChecksumWarning(name, line1, line2)
                              THEN Append(names, name) ELSE names IN
                IF parseSingleTLE(name, line1, line2).threw THEN warned
                ELSE WarningsFrom(lines, g + 1, warned)

parseTLEWarnings(rawTLE) == WarningsFrom(SplitLines(rawTLE), 1, <<>>)

NotRun == [ran |-> FALSE, threw |-> FALSE, tles |-> <<>>, warnings |-> <<>>]
Ran(r, warnings) ==
  [ran |-> TRUE, threw |-> r.threw, tles |-> r.tles, warnings |-> warnings]

InitParse ==
  /\ cacheEnabled = FALSE
  /\ callers = {}
  /\ store = [k \in {} |-> Garbage]
  /\ call = [p \in AllCallers |-> Fresh]
  /\ now = 0
  /\ input \in TLEInputs
  /\ output = [fn |-> "tle", celestrak |-> NotRun, spacetrack |-> NotRun]
  /\ redisClient = NotConnected

Apply_parseCelesTrakTLE ==
  /\ ~output.celestrak.ran
  /\ output' = [output EXCEPT !.celestrak =
                  Ran(parseCelesTrakTLE(RawTextOf(input)),
                      parseTLEWarnings(RawTextOf(input)))]
  /\ UNCHANGED << cacheEnabled, callers, store, call, now, input, redisClient >>

Apply_parseSpaceTrackTLE ==
  /\ ~output.spacetrack.ran
  /\ output' = [output EXCEPT !.spacetrack =
                  Ran(parseSpaceTrackTLE(ItemsOf(input)), <<>>)]
  /\ UNCHANGED << cacheEnabled, callers, store, call, now, input, redisClient >>

NextParse == Apply_parseCelesTrakTLE \/ Apply_parseSpaceTrackTLE

SpecParse == InitParse /\ [][NextParse]_vars

(***************************************************************************)
(* classifyOrbitType alone, on altitudes and inclinations at and around the *)
(* limits of its bands, and on values that are not numbers                  *)
(***************************************************************************)
Altitudes ==
  { Num(a) : a \in {-6371, 0, 400, 1999, 2000, 20200, 35785, 35786, 35800,
                    35999, 36000, 36001, 400000} } \cup {NaN}

Inclinations ==
  { Num(i) : i \in {0, 51, 80, 81, 90, 93, 94, 98, 99, 100, 102, 103} } \cup {NaN}

OrbitInputs == [fn : {"orbit"}, altitude : Altitudes, inclination : Inclinations]

\* The semi-major axis of an orbit of the given altitude
AxisOf(altitude) ==
  IF IsNaN(altitude) THEN NaN ELSE Num(altitude.v + earthRadius)

InitOrbit ==
  /\ cacheEnabled = FALSE
  /\ callers = {}
  /\ store = [k \in {} |-> Garbage]
  /\ call = [p \in AllCallers |-> Fresh]
  /\ now = 0
  /\ input \in OrbitInputs
  /\ output = NoValue
  /\ redisClient = NotConnected

Apply_classifyOrbitType ==
  /\ output = NoValue
  /\ output' = [fn |-> "orbit",
                orbitType |-> classifyOrbitType(AxisOf(input.altitude),
                                                input.inclination)]
  /\ UNCHANGED << cacheEnabled, callers, store, call, now, input, redisClient >>

NextOrbit == Apply_classifyOrbitType

SpecOrbit == InitOrbit /\ [][NextOrbit]_vars

(***************************************************************************)
(* classifySatelliteType alone, on names made of two words, the first in    *)
(* capitals: each word is a keyword of the chain or a word that is none     *)
(***************************************************************************)
Keywords ==
  << {kw_iss, kw_station},
     {kw_gps, kw_glonass, kw_galileo, kw_beidou},
     {kw_weather, kw_meteor, kw_noaa},
     {kw_military, kw_defense, kw_classified},
     {kw_starlink, kw_oneweb, kw_iridium},
     {kw_hubble, kw_jameswebb, kw_telescope} >>

Words == UNION {Keywords[k] : k \in 1..Len(Keywords)} \cup { <<"s","a","t">>, <<>> }

UpperChar(c) ==
  IF \E i \in 1..26 : LowerChars[i] = c
  THEN UpperChars[CHOOSE i \in 1..26 : LowerChars[i] = c]
  ELSE c

Names == { [i \in 1..Len(w1) |-> UpperChar(w1[i])] \o <<" ">> \o w2 :
             w1 \in Words, w2 \in Words }

InitType ==
  /\ cacheEnabled = FALSE
  /\ callers = {}
  /\ store = [k \in {} |-> Garbage]
  /\ call = [p \in AllCallers |-> Fresh]
  /\ now = 0
  /\ input \in [fn : {"type"}, name : Names]
  /\ output = NoValue
  /\ redisClient = NotConnected

Apply_classifySatelliteType ==
  /\ output = NoValue
  /\ output' = [fn |-> "type", type |-> classifySatelliteType(input.name)]
  /\ UNCHANGED << cacheEnabled, callers, store, call, now, input, redisClient >>

NextType == Apply_classifySatelliteType

SpecType == InitType /\ [][NextType]_vars

(***************************************************************************)
(* extractOrbitalElements alone, on data lines whose mean-motion columns    *)
(* (the ones the parser reads, line 1, 53-63) hold a number from 0 to       *)
(* MaxMeanMotion, its negative, or no number, and whose epoch columns are   *)
(* numeric or damaged                                                       *)
(***************************************************************************)
MaxMeanMotion == 20

\* The eleven characters of the columns for a sign and a whole number below 100
MeanMotionField(sign, n) ==
  << " ", sign, "0", "0", "0", DigitChars[(n \div 10) + 1], DigitChars[(n % 10) + 1],
     "-", "0", " ", "0" >>

\* A line with the columns after position start replaced
WithColumns(line, start, field) ==
  SubSeq(line, 1, start) \o field \o SubSeq(line, start + Len(field) + 1, Len(line))

ElementInputs ==
  { [fn |-> "elements", line1 |-> WithColumns(base, 52, MeanMotionField(sign, n)),
     line2 |-> LEO_line2] :
      base \in {LEO_line1, BadEpoch_line1}, sign \in {" ", "-", "?"},
      n \in 0..MaxMeanMotion }

InitElements ==
  /\ cacheEnabled = FALSE
  /\ callers = {}
  /\ store = [k \in {} |-> Garbage]
  /\ call = [p \in AllCallers |-> Fresh]
  /\ now = 0
  /\ input \in ElementInputs
  /\ output = NoValue
  /\ redisClient = NotConnected

Apply_extractOrbitalElements ==
  /\ output = NoValue
  /\ output' = [fn |-> "elements",
                elements |-> extractOrbitalElements(input.line1, input.line2)]
  /\ UNCHANGED << cacheEnabled, callers, store, call, now, input, redisClient >>

NextElements == Apply_extractOrbitalElements

SpecElements == InitElements /\ [][NextElements]_vars

(***************************************************************************)
(* validateChecksum alone, on the data lines of the element sets above with *)
(* every digit, or a character that is no digit, in the last column         *)
(***************************************************************************)
ChecksumLines ==
  { WithLast(line, ch) :
      line \in {ISS_line1, ISS_line2, HST_line1, HST_line2, NOAA19_line1,
                NOAA19_line2, LEO_line1, LEO_line2, Damaged_line1, Damaged_line2,
                BadEpoch_line1},
      ch \in DigitSet \cup {"?"} }

InitChecksum ==
  /\ cacheEnabled = FALSE
  /\ callers = {}
  /\ store = [k \in {} |-> Garbage]
  /\ call = [p \in AllCallers |-> Fresh]
  /\ now = 0
  /\ input \in [fn : {"checksum"}, line : ChecksumLines]
  /\ output = NoValue
  /\ redisClient = NotConnected

Apply_validateChecksum ==
  /\ output = NoValue
  /\ output' = [fn |-> "checksum", valid |-> validateChecksum(input.line)]
  /\ UNCHANGED << cacheEnabled, callers, store, call, now, input, redisClient >>

NextChecksum == Apply_validateChecksum

SpecChecksum == InitChecksum /\ [][NextChecksum]_vars

(***************************************************************************)
(* Properties                                                               *)
(***************************************************************************)
IsActiveCall(c) == c.op = "getActiveSatellites"

\* Every CelesTrak endpoint was requested, all requests settled, none succeeded
TotalFailureA(c) == c.reqA = NumEndpoints /\ c.pc # "ga_A" /\ ~c.anyOkA

\* What Space-Track's answer amounts to after parsing, classifying and filtering
SpaceTrackFiltered(c) ==
  applyFilters(ConvertAll(parseSpaceTrackTLE(c.servedB).tles, "space-track"), c.filter)

\* C1: in getActiveSatellites, on a cache miss, when every Provider A endpoint
\* request fails, Provider B is requested; when that request succeeds the call
\* returns Provider B's records after filtering, and that same collection is
\* what it hands to the cache write.
C1_FallbackAfterTotalFailure ==
  \A p \in AllCallers :
    LET c == call[p] IN
    (IsActiveCall(c) /\ c.pc = "done" /\ TotalFailureA(c)) =>
      /\ c.reqB = 1
      /\ (c.bOut = "ok" =>
            /\ c.result = ListResult(SpaceTrackFiltered(c))
            /\ (cacheEnabled => c.setOut # "none" /\ c.filteredSatellites = c.result.list))

\* C2: in getActiveSatellites, on a cache miss, when every Provider A endpoint
\* request fails and no Provider B request succeeds, the call ends with the
\* error SATELLITE_FETCH_FAILED carrying both underlying errors; no collection
\* is returned and no cache write is made.
C2_BothFailRaisesFetchFailed ==
  \A p \in AllCallers :
    LET c == call[p] IN
    (IsActiveCall(c) /\ c.pc = "done" /\ TotalFailureA(c) /\ c.bOut # "ok") =>
      /\ c.result.kind = "error"
      /\ c.result.code = "SATELLITE_FETCH_FAILED"
      /\ Len(c.result.details) = 2
      /\ c.setOut = "none"

C4_CacheHitShortCircuits ==
  \A p \in AllCallers :
    LET c == call[p] IN
    Readable(c.get) =>
      /\ cacheEnabled
      /\ c.reqA = 0 /\ c.reqB = 0
      /\ (IsActiveCall(c) => c.pc = "done" /\ c.result = ListResult(c.get.text.arr))
      /\ (c.op = "getSatelliteById" => c.satellites = c.get.text.arr)

C4_Witness ==
  \E p \in AllCallers :
    LET c == call[p] IN
    /\ IsActiveCall(c) /\ c.pc = "done" /\ Readable(c.get)
    /\ c.filter = F_station
    /\ Len(c.result.list) > 0
    /\ c.result.list = c.get.text.arr
    /\ c.reqA = 0

\* C5: within one getActiveSatellites invocation every Provider A request has
\* settled before a Provider B request is issued, at most one Provider B
\* request is issued, and Provider B is requested only when the Provider A
\* attempt failed (it threw, or no endpoint answered).
C5_FallbackOnlyAfterProviderAFailed ==
  \A p \in AllCallers :
    LET c == call[p] IN
    c.reqB > 0 =>
      /\ c.reqA = NumEndpoints /\ c.pc # "ga_A"
      /\ c.reqB = 1
      /\ (c.error = "CelesTrakError" \/ ~c.anyOkA)

\* C6: in the Provider A fetch a failure on one endpoint does not abort the
\* fetch: every endpoint is requested in turn, and the aggregate is exactly
\* the records of the endpoints that answered, in order, and none from the
\* others.
C6_EndpointFailureIsSkipped ==
  \A p \in AllCallers :
    LET c == call[p] IN
    c.reqA > 0 =>
      /\ c.allSatellites = ConvertAll(parseCelesTrakTLE(c.servedA).tles, "celestrak")
      /\ (c.pc = "ga_A" => c.reqA = c.idx)
      /\ (c.pc # "ga_A" => c.reqA = NumEndpoints)

C6_Witness ==
  \E p \in AllCallers :
    LET c == call[p] IN
    /\ c.pc = "done" /\ c.reqA = NumEndpoints
    /\ c.anyFailA /\ c.anyOkA
    /\ c.servedA = FeedA("/stations.txt")
    /\ Len(c.allSatellites) = 1

\* The Redis get rejected, or answered with text that is not JSON
GetFailed(o) == o.threw \/ (~o.isNull /\ JSONparseThrows(o.text))

\* C7: a cache store failure never fails a read operation: when the get
\* rejects or its text cannot be deserialized, getActiveSatellites and
\* getSatelliteById go on as on a miss (to the upstream fetch); when the set
\* rejects after a fetch, the fetched collection (or record) is still what the
\* call returns.
C7_CacheFailureNeverFailsRead ==
  \A p \in AllCallers :
    LET c == call[p] IN
    /\ (GetFailed(c.get) => c.pc = "ga_A" /\ c.idx = 1 /\ c.result = NoResult)
    /\ (GetFailed(c.idGet) => c.pc = "ga_get" /\ c.filter = NoFilter /\ c.result = NoResult)
    /\ (c.setOut = "threw" =>
          /\ c.result.kind # "error"
          /\ (IsActiveCall(c) =>
                c.pc = "done" /\ c.result = ListResult(c.filteredSatellites))
          /\ (c.op = "getSatelliteById" =>
                c.pc \in {"bi_set", "done"} /\ c.satellites = c.filteredSatellites))
    /\ (c.idSetOut = "threw" => c.pc = "done" /\ c.result = SatResult(c.satellite))

C7_Witness ==
  \E p \in AllCallers :
    LET c == call[p] IN
    /\ c.op = "getSatelliteById" /\ c.pc = "done"
    /\ c.setOut = "threw" /\ c.idSetOut = "threw"
    /\ c.result.kind = "sat" /\ c.result.sat.id = c.id

\* Elements of a collection
Elems(seq) == {seq[i] : i \in 1..Len(seq)}

\* C8: getSatelliteById(id) returns the cached record on a per-id hit; on a
\* miss it takes the unfiltered collection from getActiveSatellites() and looks
\* the id up; a record found is written under the per-id key and returned;
\* when none is found the call returns null, raises nothing and writes nothing
\* under the per-id key.
C8_GetSatelliteById ==
  [][\A p \in AllCallers :
       LET c == call[p]
           d == call'[p]
           hasId == \E s \in Elems(d.satellites) : s.id = d.id
       IN  d.op = "getSatelliteById" =>
             /\ (Readable(d.idGet) =>
                   /\ d.pc = "done" /\ d.result = SatResult(d.idGet.text.obj)
                   /\ d.reqA = 0 /\ d.get = NoGet)
             /\ (~Readable(d.idGet) /\ d.pc # "bi_get" => d.filter = NoFilter)
             /\ (d.pc = "done" /\ ~Readable(d.idGet) /\ d.result.kind # "error" =>
                   IF hasId
                   THEN /\ d.result.kind = "sat"
                        /\ d.result.sat.id = d.id
                        /\ d.result.sat \in Elems(d.satellites)
                        /\ (cacheEnabled => d.idSetOut # "none")
                   ELSE d.result = NullResult /\ d.idSetOut = "none")
             /\ (c.pc = "bi_set" /\ d.pc = "done" /\ d.idSetOut = "ok" =>
                   /\ IdCacheKey(d.id) \in DOMAIN store'
                   /\ store'[IdCacheKey(d.id)] = JSONstringifySatellite(d.result.sat))
             /\ (c # d /\ d.result = NullResult =>
                   /\ (IdCacheKey(d.id) \in DOMAIN store') = (IdCacheKey(d.id) \in DOMAIN store)
                   /\ (IdCacheKey(d.id) \in DOMAIN store => store'[IdCacheKey(d.id)] = store[IdCacheKey(d.id)]))
    ]_vars

C8_Witness ==
  \E p \in AllCallers :
    LET c == call[p] IN
    /\ c.op = "getSatelliteById" /\ c.pc = "done" /\ c.id = HST_id
    /\ ~Readable(c.idGet) /\ c.reqA = NumEndpoints
    /\ c.idSetOut = "ok"
    /\ c.result.kind = "sat" /\ c.result.sat.id = HST_id
    /\ IdCacheKey(HST_id) \in DOMAIN store
    /\ store[IdCacheKey(HST_id)] = JSONstringifySatellite(c.result.sat)

\* The per-id entries are the same before and after a step
PerIdEntriesUnchanged ==
  \A k \in (DOMAIN store) \cup (DOMAIN store') :
    (\E id \in Ids : k = IdCacheKey(id)) =>
      /\ k \in DOMAIN store /\ k \in DOMAIN store'
      /\ store'[k] = store[k]

NoCollectionEntryLeft == \A k \in DOMAIN store' : ~MatchesClearPattern(k)

Criteria(filter) ==
  { filter.props[i] : i \in {j \in 1..Len(filter.props) : filter.props[j].v.t # "undef"} }

\* C10: the cache key of getActiveSatellites is canonical in the filter: two
\* filters that supply the same criteria with the same values get the same key
\* whatever the order the criteria were written in, and two filters that
\* differ in a criterion get different keys.
C10_KeyIsCanonical ==
  \A p, q \in AllCallers :
    (call[p].pc # "idle" /\ call[q].pc # "idle") =>
      ((Criteria(call[p].filter) = Criteria(call[q].filter))
         <=> (call[p].cacheKey = call[q].cacheKey))

\* Two finished getActiveSatellites calls on one cache key that both missed,
\* fetched and wrote the cache
BothFetchedAndWrote(c, d) ==
  /\ IsActiveCall(c) /\ IsActiveCall(d)
  /\ c.pc = "done" /\ d.pc = "done"
  /\ c.cacheKey = d.cacheKey
  /\ c.reqA = NumEndpoints /\ d.reqA = NumEndpoints
  /\ c.setOut = "ok" /\ d.setOut = "ok"

\* C11 as stated: when two getActiveSatellites calls on the same key both miss,
\* fetch and write, the entry left after both is the snapshot of the call
\* whose fetch was the later one: older data never replaces it.
C11_LaterFetchWins ==
  \A p, q \in AllCallers :
    (p # q /\ BothFetchedAndWrote(call[p], call[q])
       /\ call[p].fetchedAt < call[q].fetchedAt) =>
      /\ call[p].cacheKey \in DOMAIN store
      /\ store[call[p].cacheKey] = JSONstringifySatellites(call[q].result.list)

\* C11 as amended: each of two concurrent getActiveSatellites calls that miss
\* makes its own requests to every endpoint and its own cache write and returns
\* the collection of its own fetch; a write replaces the entry by the writer's
\* whole collection, so the entry left after both calls is the complete
\* collection of one of them (the one that wrote last), never a mixture.
C11_LastWriterSnapshot ==
  [][\A p \in AllCallers :
       LET c == call[p]
           d == call'[p]
       IN  /\ (d.pc = "done" /\ d.reqA > 0 =>
                 /\ d.reqA = NumEndpoints
                 /\ d.setOut # "none"
                 /\ d.filteredSatellites = applyFilters(d.allSatellites, d.filter)
                 /\ d.result = ListResult(d.filteredSatellites))
           /\ (c.pc = "ga_setA" /\ d.pc = "done" /\ d.setOut = "ok" =>
                 /\ d.cacheKey \in DOMAIN store'
                 /\ store'[d.cacheKey] = JSONstringifySatellites(d.filteredSatellites))
           /\ \A q \in AllCallers \ {p} :
                BothFetchedAndWrote(d, call'[q]) =>
                  /\ d.cacheKey \in DOMAIN store'
                  /\ store'[d.cacheKey] \in
                       { JSONstringifySatellites(d.result.list),
                         JSONstringifySatellites(call'[q].result.list) }
    ]_vars

C11_Witness ==
  \E p, q \in AllCallers :
    /\ p # q /\ BothFetchedAndWrote(call[p], call[q])
    /\ call[p].fetchedAt < call[q].fetchedAt
    /\ call[p].result.list # <<>>
    /\ call[p].result.list # call[q].result.list
    /\ store[call[p].cacheKey] = JSONstringifySatellites(call[p].result.list)

\* C12: in the collection a getActiveSatellites call returns after an upstream
\* fetch no two records have the same id, also when one object is listed by
\* more than one CelesTrak endpoint.
C12_FetchedIdsUnique ==
  \A p \in AllCallers :
    LET c == call[p] IN
    (IsActiveCall(c) /\ c.pc = "done" /\ c.result.kind = "list"
       /\ (c.reqA > 0 \/ c.reqB > 0)) =>
      \A i, j \in 1..Len(c.result.list) :
        c.result.list[i].id = c.result.list[j].id => i = j

\* A value lies within [lo, hi], both ends included
InRange(x, lo, hi) == NumGe(x, Num(lo)) /\ NumLe(x, Num(hi))

\* A record satisfies every criterion the filter supplies
SatisfiesEvery(sat, filter) ==
  \A cr \in Criteria(filter) :
    CASE cr.k = "type" -> ArrIncludes(cr.v.a, sat.type)
      [] cr.k = "orbitType" -> ArrIncludes(cr.v.a, sat.orbitType)
      [] cr.k = "country" -> ArrIncludes(cr.v.a, sat.country)
      [] cr.k = "operator" -> ArrIncludes(cr.v.a, sat.operator)
      [] cr.k = "isActive" -> sat.isActive = cr.v.b
      [] cr.k = "altitudeRange" ->
           InRange(calculateAltitude(sat.semiMajorAxis), cr.v.min, cr.v.max)
      [] cr.k = "inclinationRange" -> InRange(sat.inclination, cr.v.min, cr.v.max)
      [] OTHER -> TRUE

\* A getActiveSatellites call that returned what it fetched and filtered
ReturnedFetched(c) ==
  /\ IsActiveCall(c) /\ c.pc = "done" /\ c.result.kind = "list"
  /\ c.reqA = NumEndpoints /\ c.reqB = 0

\* C13: filtering is conjunctive: the result of getActiveSatellites(filter)
\* holds, in the order fetched, exactly the fetched records that satisfy every
\* supplied criterion (membership for type, orbitType, country and operator,
\* equality for isActive, altitude and inclination within [min, max] with both
\* ends included); a criterion that is not supplied excludes nothing.
C13_FilterIsConjunctive ==
  \A p \in callers :
    LET c == call[p] IN
    ReturnedFetched(c) =>
      c.result.list =
        SelectSeq(c.allSatellites, LAMBDA sat : SatisfiesEvery(sat, c.filter))

RECURSIVE SumCounts(_)
SumCounts(counts) ==
  IF DOMAIN counts = {} THEN 0
  ELSE LET v == CHOOSE v \in DOMAIN counts : TRUE IN
       counts[v] + SumCounts([w \in DOMAIN counts \ {v} |-> counts[w]])

\* C14: the statistics of getSatelliteStats(filter) over the collection S that
\* getActiveSatellites(filter) returned: total = |S| = active + inactive; the
\* counts of byType, of byOrbitType and of byCountry each sum to total; when S
\* is not empty, altitudeRange.min <= averageAltitude <= altitudeRange.max;
\* when S is empty every statistic is zero and the call does not fail.
C14_StatsAreConsistent ==
  \A p \in callers :
    LET c == call[p]
        S == c.satellites
        stats == c.result.stats
    IN  (c.op = "getSatelliteStats" /\ c.pc = "done" /\ c.result.kind # "error") =>
          /\ c.result.kind = "stats"
          /\ stats.total = Len(S)
          /\ stats.total = stats.active + stats.inactive
          /\ SumCounts(stats.byType) = stats.total
          /\ SumCounts(stats.byOrbitType) = stats.total
          /\ SumCounts(stats.byCountry) = stats.total
          /\ Len(S) > 0 =>
               /\ NumLe(stats.min, stats.averageAltitude)
               /\ NumLe(stats.averageAltitude, stats.max)
          /\ Len(S) = 0 => stats = NoStats

\* The complete groups of three lines of a text, in order
LineGroups(rawTLE) ==
  LET lines == SplitLines(rawTLE) IN
  [g \in 1..(Len(lines) \div 3) |->
     [name |-> trim(lines[3 * g - 2]), line1 |-> trim(lines[3 * g - 1]),
      line2 |-> trim(lines[3 * g])]]

\* Both data lines are 69 characters long and start with '1' and '2'
DataLinesOK(group) ==
  /\ Len(group.line1) = 69 /\ Len(group.line2) = 69
  /\ group.line1[1] = "1" /\ group.line2[1] = "2"

\* The name and the data lines each record of a parse was made from
SourcesOf(tles) ==
  [i \in 1..Len(tles) |->
     [name |-> tles[i].name, line1 |-> tles[i].line1, line2 |-> tles[i].line2]]

\* C15: parseTLE splits its input into consecutive groups of three lines and
\* returns, in input order, exactly one record for each complete group whose
\* two data lines are 69 characters long and start with '1' and '2'; a group
\* that fails this is left out without affecting the others, a trailing
\* partial group is dropped, and when all groups are valid the number of
\* records is floor(lineCount / 3).
C15_OneRecordPerValidGroup ==
  output.celestrak.ran =>
    /\ ~output.celestrak.threw
    /\ SourcesOf(output.celestrak.tles) =
         SelectSeq(LineGroups(RawTextOf(input)), DataLinesOK)

\* The digits tried in place of a checksum digit
ChecksumDigits == {"0", "5"}

\* The input with the checksum digit of one data line of one group replaced
Rechecksummed(in, g, ln, d) ==
  [in EXCEPT !.groups[g] =
     IF ln = 1 THEN [@ EXCEPT !.line1 = WithLast(@, d)]
     ELSE [@ EXCEPT !.line2 = WithLast(@, d)]]

\* The records of a parse without the checksum digits of their lines
WithoutChecksums(tles) ==
  [i \in 1..Len(tles) |->
     [tles[i] EXCEPT !.line1 = SubSeq(@, 1, 68), !.line2 = SubSeq(@, 1, 68)]]

\* C16: a checksum mismatch on either data line never prevents extraction: a
\* group that passes the length and leading-character checks is extracted
\* with the same fields whatever its checksum digits are, and a mismatch
\* produces a warning and nothing else (a record is warned about exactly when
\* one of its checksums does not match).
C16_ChecksumOnlyWarns ==
  output.celestrak.ran =>
    /\ \A g \in 1..Len(input.groups) :
         DataLinesOK(input.groups[g]) =>
           \A ln \in {1, 2}, d \in ChecksumDigits :
             LET twin == parseCelesTrakTLE(RawTextOf(Rechecksummed(input, g, ln, d))) IN
             /\ twin.threw = output.celestrak.threw
             /\ WithoutChecksums(twin.tles) = WithoutChecksums(output.celestrak.tles)
    /\ \A i \in 1..Len(output.celestrak.tles) :
         LET tle == output.celestrak.tles[i] IN
         (~validateChecksum(tle.line1) \/ ~validateChecksum(tle.line2))
           <=> (\E w \in 1..Len(output.celestrak.warnings) :
                  output.celestrak.warnings[w] = tle.name)

\* C16 witness: a parse extracted a record whose checksum does not match, and
\* warned about it
C16_Witness ==
  /\ output.celestrak.ran
  /\ \E i \in 1..Len(output.celestrak.tles) :
       /\ ~validateChecksum(output.celestrak.tles[i].line1)
       /\ output.celestrak.tles[i].name = G_badsum.name
       /\ output.celestrak.warnings # <<>>

\* C17: parseSpaceTrackTLE and parseCelesTrakTLE give the same outcome for any
\* triple of name and data lines: both reject it, or both yield the same record.
C17_ParsersAgree ==
  (output.celestrak.ran /\ output.spacetrack.ran
     /\ Len(input.groups) = 1 /\ input.tail = <<>>) =>
    /\ output.celestrak.threw = output.spacetrack.threw
    /\ output.celestrak.tles = output.spacetrack.tles

\* C18: the orbit regime depends only on altitude and inclination, and the
\* altitude bands come before the inclination bands: altitude < 2000 km is
\* low-earth-orbit whatever the inclination, 2000 <= altitude < 35786 is
\* medium-earth-orbit, 35786 <= altitude < 36000 is geostationary, and
\* altitude > 36000 is high-earth-orbit.
C18_AltitudeBandsFirst ==
  output.fn = "orbit" =>
    LET altitude == input.altitude IN
    /\ NumLt(altitude, Num(2000)) => output.orbitType = "low-earth-orbit"
    /\ (NumGe(altitude, Num(2000)) /\ NumLt(altitude, Num(35786)))
         => output.orbitType = "medium-earth-orbit"
    /\ (NumGe(altitude, Num(35786)) /\ NumLt(altitude, Num(36000)))
         => output.orbitType = "geostationary"
    /\ NumGt(altitude, Num(36000)) => output.orbitType = "high-earth-orbit"

\* C18 witness: an orbit at 400 km with a polar inclination was classified
\* low-earth-orbit
C18_Witness ==
  /\ output.fn = "orbit"
  /\ input.altitude = Num(400) /\ input.inclination = Num(90)
  /\ output.orbitType = "low-earth-orbit"

\* The categories of the chain in their order
CategoryOrder ==
  << "space-station", "navigation", "weather", "military", "communication",
     "scientific" >>

\* The categories a name matches: those with a keyword in the lower-cased name
Matched(name) ==
  {k \in 1..Len(CategoryOrder) :
     \E kw \in Keywords[k] : includes(toLowerCase(name), kw)}

\* C19: the mission type is the first match of a chain over the lower-cased
\* name in the order space-station, navigation, weather, military,
\* communication, scientific: a name matching keywords of several categories
\* gets the category earliest in that order, and a name matching no keyword
\* is unknown.
C19_FirstMatchWins ==
  output.fn = "type" =>
    LET matched == Matched(input.name) IN
    IF matched = {} THEN output.type = "unknown"
    ELSE output.type =
           CategoryOrder[CHOOSE k \in matched : \A j \in matched : k <= j]

\* C19 witness: a name with both 'weather' and 'station' was classified
\* space-station
C19_Witness ==
  /\ output.fn = "type"
  /\ includes(toLowerCase(input.name), kw_weather)
  /\ includes(toLowerCase(input.name), kw_station)
  /\ output.type = "space-station"

\* C20: every parsed record satisfies the orbital-element invariant: period =
\* (24*60)/meanMotion when meanMotion > 0 and period = 0 otherwise;
\* semiMajorAxis = 0 whenever meanMotion <= 0, so that semiMajorAxis is 0
\* exactly when period is 0; and the derivation never throws.  (The period is
\* held in thousandths of a minute.)
C20_ElementInvariant ==
  output.fn = "elements" =>
    LET e == output.elements IN
    /\ ~e.threw
    /\ e.period = IF NumGt(e.meanMotion, Num(0))
                  THEN Num((24 * 60 * 1000) \div e.meanMotion.v) ELSE Num(0)
    /\ NumLe(e.meanMotion, Num(0)) => e.semiMajorAxis = Num(0)
    /\ (e.semiMajorAxis = Num(0)) <=> (e.period = Num(0))

\* C21: the mean motion of a parsed record is taken from the mean-motion
\* columns of line 2 (columns 53-63), so it, and the period and semiMajorAxis
\* derived from it, are determined by line 2 and do not change when only the
\* drag-term columns of line 1 change.
C21_MeanMotionFromLine2 ==
  (output.fn = "elements" /\ ~output.elements.threw) =>
    LET meanMotion == parseFloat(substring(input.line2, 52, 63)) IN
    /\ output.elements.meanMotion = meanMotion
    /\ output.elements.period = OrbitalPeriod(meanMotion)
    /\ output.elements.semiMajorAxis = calculateSemiMajorAxis(meanMotion)

\* The checksum of a line as the TLE format defines it: the sum over the first
\* 68 characters of the digit's value for a digit, 1 for '-' and 0 for every
\* other character, modulo 10
RECURSIVE DigitSum(_, _)
DigitSum(line, n) ==
  IF n = 0 THEN 0
  ELSE DigitSum(line, n - 1)
       + (IF line[n] = "-" THEN 1 ELSE IF IsDigit(line[n]) THEN DigitVal(line[n]) ELSE 0)

\* C22: the checksum computed for a data line is the sum over its first 68
\* characters of the digit's value for a digit, 1 for '-' and 0 for every
\* other character, letters included, modulo 10; the line's checksum is valid
\* if and only if that value equals the digit in the line's last character.
C22_ChecksumCountsDigitsOnly ==
  output.fn = "checksum" =>
    (output.valid <=>
       (/\ IsDigit(input.line[69])
        /\ DigitSum(input.line, 68) % 10 = DigitVal(input.line[69])))

(***************************************************************************)
(* C23: with caching enabled and a store that answers, when a cache-miss    *)
(* getActiveSatellites call returns a collection C its entry holds C (what  *)
(* is read back from the entry is C), and a following call that reads the   *)
(* entry returns what it holds as a cache hit with no upstream request,     *)
(* the empty collection included.                                           *)
(***************************************************************************)
\* The store's answer to get(key) when it works and the entry is there
StoredAnswer(key) == [threw |-> FALSE, isNull |-> FALSE, text |-> store[key]]

C23_MissWroteWhatItReturned(c) ==
  (/\ c.op = "getActiveSatellites" /\ c.pc = "done"
   /\ c.setOut = "ok"
   /\ c.cacheKey \in DOMAIN store)
  => /\ c.result.kind = "list"
     /\ getCachedSatellites(StoredAnswer(c.cacheKey))
          = [kind |-> "val", arr |-> c.result.list, obj |-> NoSat]

C23_EntryReadIsHit(c) ==
  (/\ c.op = "getActiveSatellites" /\ c.pc = "done"
   /\ Readable(c.get))
  => /\ c.result = ListResult(c.get.text.arr)
     /\ c.reqA = 0
     /\ c.reqB = 0

\* C23: while the entry a miss wrote is still there (the one caller has not
\* called again, the entry has not expired) reading it back gives what the
\* miss returned, and a call that read an entry returned it as a hit without
\* upstream requests
C23_WriteThrough ==
  \A p \in callers :
    C23_MissWroteWhatItReturned(call[p]) /\ C23_EntryReadIsHit(call[p])

(***************************************************************************)
(* C24: at the moment a clearCache whose two store operations succeeded     *)
(* returns, whatever getActiveSatellites calls ran beside it, the store     *)
(* holds no entry under the satellites: prefix with a record fetched before *)
(* that clearCache began.                                                   *)
(***************************************************************************)
\* C24: a clearCache whose two store operations succeeded left, when it
\* returned, no entry fetched before it began
C24_ClearLeavesNoOlderEntry ==
  \A p \in callers :
    LET c == call[p] IN
    (/\ c.op = "clearCache" /\ c.pc = "done"
     /\ c.keysOut = "ok" /\ c.delOut # "threw")
    => c.olderLeft = {}

(***************************************************************************)
(* C25: in the Redis client wrapper, whatever the interleaving of cache     *)
(* operations and connection events, at most one client.connect() is in     *)
(* flight and client.connect() is never called while the socket is open,    *)
(* so no operation fails with the connection error of a second connect.     *)
(***************************************************************************)
ConnectsInFlight == { p \in AllCallers : call[p].pc = "rc_connect" }

\* C25: one connect at a time, and none on an open socket
C25_SingleConnect ==
  /\ Cardinality(ConnectsInFlight) <= 1
  /\ \A p \in AllCallers : call[p].error # "Socket already opened"


(***************************************************************************)
(* C26: every entry the service writes to the cache is written with an      *)
(* expiry of the configured cacheTTL seconds, whatever cacheTTL is          *)
(* configured (0 and not-a-number included): none is stored without expiry. *)
(***************************************************************************)
C26_EveryEntryExpires ==
  (output.fn = "set" /\ output.written.stored) =>
    /\ output.written.cmd = "SETEX"
    /\ output.written.ttl = output.cacheTTL


(***************************************************************************)
(* C27: a GET request for /api/satellites/stats is dispatched to the        *)
(* statistics handler getSatelliteStats, not to the by-id handler with      *)
(* id = 'stats'.                                                            *)
(***************************************************************************)
C27_StatsRouteReachesStats ==
  (output.fn = "route" /\ input.path = <<"api", "satellites", "stats">>) =>
    output.route.handler = "getSatelliteStats"


(***************************************************************************)
(* C28: classifyOrbitType returns polar, sun-synchronous or unknown only    *)
(* when the altitude is exactly 36000 km; for every other altitude the      *)
(* result is one of the four altitude regimes; and sun-synchronous is       *)
(* returned only for an inclination in [100, 103).                          *)
(***************************************************************************)
AltitudeRegimes ==
  {"low-earth-orbit", "medium-earth-orbit", "geostationary", "high-earth-orbit"}

C28_InclinationTagsOnlyAt36000 ==
  output.fn = "orbit" =>
    /\ output.orbitType \in {"polar", "sun-synchronous", "unknown"}
         => input.altitude = Num(36000)
    /\ input.altitude # Num(36000) => output.orbitType \in AltitudeRegimes
    /\ output.orbitType = "sun-synchronous"
         => NumGe(input.inclination, Num(100)) /\ NumLt(input.inclination, Num(103))


(***************************************************************************)
(* C29: every record produced by an upstream fetch has isActive = true and  *)
(* country, operator and mission 'Unknown'; so a getActiveSatellites call   *)
(* that fetches and filters with isActive = false, or with a country or     *)
(* operator list without 'Unknown', returns the empty collection, and       *)
(* getSatelliteStats over fetched data reports inactive = 0, active = total.*)
(***************************************************************************)
FetchedDefaults(sat) ==
  /\ sat.isActive
  /\ sat.country = "Unknown" /\ sat.operator = "Unknown" /\ sat.mission = "Unknown"

AllFetchedDefaults(satellites) ==
  \A i \in 1..Len(satellites) : FetchedDefaults(satellites[i])

\* The list under k is supplied and does not contain 'Unknown'
ListWithoutUnknown(filter, k) ==
  /\ filter.present
  /\ Prop(filter, k).t = "arr"
  /\ ~ArrIncludes(Prop(filter, k).a, "Unknown")

ExcludesEveryFetched(filter) ==
  \/ (filter.present /\ Prop(filter, "isActive") = VBool(FALSE))
  \/ ListWithoutUnknown(filter, "country")
  \/ ListWithoutUnknown(filter, "operator")

\* C29: fetched records carry the defaults, filters that exclude the defaults
\* give the empty collection, and the statistics count no inactive record
C29_FetchedDefaultsDecide ==
  \A p \in callers :
    LET c == call[p] IN
    /\ AllFetchedDefaults(c.allSatellites)
    /\ AllFetchedDefaults(c.satellites)
    /\ (c.pc = "done" /\ c.result.kind = "list") => AllFetchedDefaults(c.result.list)
    /\ (c.pc = "done" /\ c.result.kind = "list" /\ c.op = "getActiveSatellites"
        /\ ExcludesEveryFetched(c.filter)) => c.result.list = <<>>
    /\ (c.pc = "done" /\ c.op = "getSatelliteStats" /\ c.result.kind = "stats") =>
         /\ c.result.stats.inactive = 0
         /\ c.result.stats.active = c.result.stats.total

\* C29 witness: a call with a country list without 'Unknown' fetched records
\* and returned none
C29_Witness ==
  \E p \in callers :
    LET c == call[p] IN
    /\ c.pc = "done" /\ c.op = "getActiveSatellites"
    /\ c.filter = FilterObj(<<P_country>>)
    /\ Len(c.allSatellites) > 0
    /\ c.result = ListResult(<<>>)


(***************************************************************************)
(* C30: every collection returned by a getActiveSatellites call that        *)
(* fetched is homogeneous in origin: all its records have dataSource        *)
(* 'celestrak' when the CelesTrak path returned it and 'space-track' when   *)
(* the fallback returned it; the two are never mixed in one collection.     *)
(***************************************************************************)
AllFrom(satellites, dataSource) ==
  \A i \in 1..Len(satellites) : satellites[i].dataSource = dataSource

\* The call fetched (it did not answer from the cache) and returned a list
ReturnedByFetch(c) ==
  /\ c.op = "getActiveSatellites" /\ c.pc = "done" /\ c.result.kind = "list"
  /\ c.reqA > 0

\* C30: one provider per returned collection
C30_OneProviderPerCollection ==
  \A p \in callers :
    LET c == call[p] IN
    ReturnedByFetch(c) =>
      /\ c.reqB = 0 => AllFrom(c.result.list, "celestrak")
      /\ c.reqB > 0 => AllFrom(c.result.list, "space-track")

\* C30 witness: the CelesTrak path returned a collection of two or more
\* records, all of them tagged celestrak
C30_Witness ==
  \E p \in callers :
    LET c == call[p] IN
    /\ ReturnedByFetch(c) /\ c.reqB = 0
    /\ Len(c.result.list) >= 2
    /\ AllFrom(c.result.list, "celestrak")


====
